---------------------------- MODULE Spec2Model ----------------------------
(***************************************************************************)
(* TheoTown save editor: the binary field codec (BinaryFields) and the     *)
(* edit session built on it (CityManager, HistoryManager).                 *)
(*                                                                         *)
(* A buffer (Uint8Array) is a sequence of bytes; offsets are 0-based as in *)
(* the source, so the byte at offset i of buffer d is d[i + 1].  A string  *)
(* is the sequence of its UTF-16 code units.                               *)
(***************************************************************************)
EXTENDS Integers, Sequences, FiniteSets, TLC

VARIABLES
    data,           \* codec level: the buffer the caller currently owns
    last,           \* codec level: record of the last BinaryFields call
    ops,            \* number of operations performed so far
    currentCity,    \* CityManager.currentCity: header, binaryData, originals
    binaryFields,   \* CityManager.binaryFields
    hasChanges,     \* CityManager.hasChanges
    undoStack,      \* HistoryManager.undoStack
    redoStack,      \* HistoryManager.redoStack
    isApplyingHistory,  \* HistoryManager.isApplyingHistory
    call,           \* session level: record of the last CityManager call
    fileName,       \* CityManager.fileName
    memoryBackup,   \* BackupManager.memoryBackup
    moves,          \* history level: pops, clears and switches so far
    loads           \* the calls of CityManager.load suspended at an await

vars == <<data, last, ops, currentCity, binaryFields, hasChanges,
          undoStack, redoStack, isApplyingHistory, call,
          fileName, memoryBackup, moves, loads>>

-----------------------------------------------------------------------------
(* Bounds of the model *)

\* operations performed in one behaviour
MaxOps == 2

-----------------------------------------------------------------------------
(* JavaScript values.  Every value is a record of the same shape so that  *)
(* any two values can be compared: t is the type, n the number (or 1/0    *)
(* for a boolean), s the code units of a string (or the 8 bytes of a      *)
(* double that is not an integer of the modelled range).                   *)

Num(v) == [t |-> "number", n |-> v, s |-> <<>>]
Str(u) == [t |-> "string", n |-> 0, s |-> u]
Bool(b) == [t |-> "boolean", n |-> IF b THEN 1 ELSE 0, s |-> <<>>]
Null == [t |-> "null", n |-> 0, s |-> <<>>]
Undefined == [t |-> "undefined", n |-> 0, s |-> <<>>]
Float64Raw(bytes) == [t |-> "float64", n |-> 0, s |-> bytes]
RangeError == [t |-> "RangeError", n |-> 0, s |-> <<>>]

Max(a, b) == IF a >= b THEN a ELSE b
Min(a, b) == IF a <= b THEN a ELSE b

-----------------------------------------------------------------------------
(* Typed-array access *)

\* data[i] used as an operand of << or | : an index outside the array reads
\* undefined, which the bit operators convert to 0
At(d, i) == IF i >= 0 /\ i < Len(d) THEN d[i + 1] ELSE 0

\* the value added to the byte instead of replacing it
Store_Adds(d, i, v) ==
    IF i >= 0 /\ i < Len(d) THEN [d EXCEPT ![i + 1] = (@ + v) % 256] ELSE d

\* data[i] = v : the value is stored modulo 256, a store outside the array
\* is ignored
Store(d, i, v) == IF i >= 0 /\ i < Len(d) THEN [d EXCEPT ![i + 1] = v % 256] ELSE d

\* data.slice(from, to) with 0 <= from: both ends are clamped to the length
Slice(d, from, to) ==
    LET f == Min(Max(from, 0), Len(d))
        e == Min(Max(to, 0), Len(d))
    IN  IF e <= f THEN <<>> ELSE SubSeq(d, f + 1, e)

\* data.slice(from)
SliceFrom(d, from) == Slice(d, from, Len(d))

\* (value >> k) & 0xFF
ShiftByte(v, k) == (v \div (2 ^ k)) % 256

\* (data[o] << 8) | data[o + 1]
ReadU16(d, o) == At(d, o) * 256 + At(d, o + 1)

\* the four bytes taken in the opposite order
ReadI32_LittleEndian(d, o) ==
    LET b3 == At(d, o + 3)
        hi == IF b3 >= 128 THEN b3 - 256 ELSE b3
    IN  hi * 16777216 + At(d, o + 2) * 65536 + At(d, o + 1) * 256 + At(d, o)

\* (data[o] << 24) | (data[o+1] << 16) | (data[o+2] << 8) | data[o+3] :
\* the result of << and | is a signed 32-bit integer
ReadI32(d, o) ==
    LET b0 == At(d, o)
        hi == IF b0 >= 128 THEN b0 - 256 ELSE b0
    IN  hi * 16777216 + At(d, o + 1) * 65536 + At(d, o + 2) * 256 + At(d, o + 3)

-----------------------------------------------------------------------------
(* DataView.setFloat64 / getFloat64, big-endian IEEE-754 binary64 *)

\* the w-bit big-endian representation of n
Bits(n, w) == [i \in 1..w |-> (n \div (2 ^ (w - i))) % 2]

Zeros(w) == [i \in 1..w |-> 0]

RECURSIVE BitsValue(_)
BitsValue(b) ==
    IF Len(b) = 0 THEN 0
    ELSE 2 * BitsValue(SubSeq(b, 1, Len(b) - 1)) + b[Len(b)]

Abs(v) == IF v < 0 THEN 0 - v ELSE v

\* the exponent of a positive integer below 2^31
Exponent(a) == CHOOSE e \in 0..30 : a \div (2 ^ e) = 1

\* view.setFloat64(0, value, false) followed by new Uint8Array(buffer)
setFloat64(value) ==
    LET a == Abs(value)
        e == Exponent(a)
        bits == IF value = 0 THEN Zeros(64)
                ELSE <<IF value < 0 THEN 1 ELSE 0>> \o Bits(1023 + e, 11)
                     \o Bits(a - 2 ^ e, e) \o Zeros(52 - e)
    IN  [k \in 1..8 |-> BitsValue(SubSeq(bits, 8 * k - 7, 8 * k))]

\* view.getFloat64(0, false) on 8 bytes
getFloat64(bytes) ==
    LET bits == Bits(bytes[1], 8) \o Bits(bytes[2], 8) \o Bits(bytes[3], 8)
                \o Bits(bytes[4], 8) \o Bits(bytes[5], 8) \o Bits(bytes[6], 8)
                \o Bits(bytes[7], 8) \o Bits(bytes[8], 8)
        biased == BitsValue(SubSeq(bits, 2, 12))
        frac == SubSeq(bits, 13, 64)
        e == biased - 1023
    IN  IF biased = 0 /\ frac = Zeros(52) THEN Num(0)
        ELSE IF e >= 0 /\ e <= 30 /\ SubSeq(frac, e + 1, 52) = Zeros(52 - e)
             THEN LET m == 2 ^ e + BitsValue(SubSeq(frac, 1, e))
                  IN  Num(IF bits[1] = 1 THEN 0 - m ELSE m)
             ELSE Float64Raw(bytes)

\* A number that is not an integer of the modelled range is the record
\* Float64Raw of its 8 bytes: its sign, biased exponent and fraction
Float64Sign(bytes) == bytes[1] \div 128
Float64Biased(bytes) == (bytes[1] % 128) * 16 + (bytes[2] \div 16)
Float64FracZero(bytes) ==
    (bytes[2] % 16) = 0 /\ \A i \in 3..8 : bytes[i] = 0

\* NaN as setFloat64 stores it, Infinity and -Infinity
NaN == Float64Raw(<<127, 248, 0, 0, 0, 0, 0, 0>>)
PosInfinity == Float64Raw(<<127, 240, 0, 0, 0, 0, 0, 0>>)
NegInfinity == Float64Raw(<<255, 240, 0, 0, 0, 0, 0, 0>>)

IsNaN(x) ==
    x.t = "float64" /\ Float64Biased(x.s) = 2047 /\ ~Float64FracZero(x.s)
IsFinite(x) ==
    x.t = "number" \/ (x.t = "float64" /\ Float64Biased(x.s) # 2047)

\* the double twice as large as a finite one: the exponent one higher
Doubled(bytes) ==
    LET biased == Float64Biased(bytes) + 1
    IN  [bytes EXCEPT ![1] = Float64Sign(bytes) * 128 + (biased \div 16),
                      ![2] = (biased % 16) * 16 + (bytes[2] % 16)]

\* view.setFloat64(0, value, false) for any number value
Float64Bytes(x) == IF x.t = "float64" THEN x.s ELSE setFloat64(x.n)

\* Math.floor of a positive finite number below 2^31 that Float64Raw holds
FloorSmall(bytes) ==
    LET e == Float64Biased(bytes) - 1023
        bits == Bits(bytes[2] % 16, 4) \o Bits(bytes[3], 8) \o Bits(bytes[4], 8)
                \o Bits(bytes[5], 8) \o Bits(bytes[6], 8)
    IN  IF e < 0 THEN 0 ELSE 2 ^ e + BitsValue(SubSeq(bits, 1, e))

-----------------------------------------------------------------------------
(* TextEncoder.encode / TextDecoder('utf-8').decode *)

IsHighSurrogate(c) == c >= 55296 /\ c <= 56319
IsLowSurrogate(c) == c >= 56320 /\ c <= 57343

\* the first index from i on whose element is 128 or more, Len(q) + 1 if
\* there is none: the elements before it are a run of ASCII
AsciiEnd(q, i) ==
    LET stops == {j \in i..Len(q) : q[j] >= 128}
    IN  IF stops = {} THEN Len(q) + 1 ELSE CHOOSE j \in stops : \A k \in stops : j <= k

\* the encoder from code unit i on; a run of ASCII units is copied at once
RECURSIVE EncodeFrom(_, _)
EncodeFrom(u, i) ==
    IF i > Len(u) THEN <<>>
    ELSE LET c == u[i] IN
         IF c < 128
         THEN SubSeq(u, i, AsciiEnd(u, i) - 1) \o EncodeFrom(u, AsciiEnd(u, i))
         ELSE IF c < 2048
              THEN <<192 + (c \div 64), 128 + (c % 64)>> \o EncodeFrom(u, i + 1)
         ELSE IF IsHighSurrogate(c) /\ i < Len(u) /\ IsLowSurrogate(u[i + 1])
              THEN LET cp == 65536 + (c - 55296) * 1024 + (u[i + 1] - 56320)
                   IN  <<240 + (cp \div 262144), 128 + ((cp \div 4096) % 64),
                         128 + ((cp \div 64) % 64), 128 + (cp % 64)>>
                       \o EncodeFrom(u, i + 2)
         ELSE IF IsHighSurrogate(c) \/ IsLowSurrogate(c)
              THEN <<239, 191, 189>> \o EncodeFrom(u, i + 1)
         ELSE <<224 + (c \div 4096), 128 + ((c \div 64) % 64), 128 + (c % 64)>>
              \o EncodeFrom(u, i + 1)

\* new TextEncoder().encode(text)
TextEncode(u) == EncodeFrom(u, 1)

\* the code units of a decoded code point
CodeUnits(cp) ==
    IF cp < 65536 THEN <<cp>>
    ELSE <<55296 + ((cp - 65536) \div 1024), 56320 + ((cp - 65536) % 1024)>>

RECURSIVE DecodeFrom(_, _)
RECURSIVE DecodeCont(_, _, _, _, _, _)

\* the decoder after a lead byte: need more bytes are expected, the next one
\* at index j within lo..hi; a byte outside is not consumed and U+FFFD is
\* emitted for the sequence so far
DecodeCont(b, j, need, cp, lo, hi) ==
    IF j > Len(b) THEN <<65533>>
    ELSE IF b[j] < lo \/ b[j] > hi THEN <<65533>> \o DecodeFrom(b, j)
    ELSE IF need = 1 THEN CodeUnits(cp * 64 + (b[j] % 64)) \o DecodeFrom(b, j + 1)
    ELSE DecodeCont(b, j + 1, need - 1, cp * 64 + (b[j] % 64), 128, 191)

\* the decoder from byte i on; a run of ASCII bytes is copied at once
DecodeFrom(b, i) ==
    IF i > Len(b) THEN <<>>
    ELSE LET x == b[i] IN
         IF x <= 127
         THEN SubSeq(b, i, AsciiEnd(b, i) - 1) \o DecodeFrom(b, AsciiEnd(b, i))
         ELSE IF x >= 194 /\ x <= 223
              THEN DecodeCont(b, i + 1, 1, x % 32, 128, 191)
         ELSE IF x >= 224 /\ x <= 239
              THEN DecodeCont(b, i + 1, 2, x % 16,
                              IF x = 224 THEN 160 ELSE 128,
                              IF x = 237 THEN 159 ELSE 191)
         ELSE IF x >= 240 /\ x <= 244
              THEN DecodeCont(b, i + 1, 3, x % 8,
                              IF x = 240 THEN 144 ELSE 128,
                              IF x = 244 THEN 143 ELSE 191)
         ELSE <<65533>> \o DecodeFrom(b, i + 1)

\* new TextDecoder('utf-8').decode(bytes): a leading byte order mark is
\* dropped (ignoreBOM is false)
TextDecode(b) ==
    IF Len(b) >= 3 /\ b[1] = 239 /\ b[2] = 187 /\ b[3] = 191
    THEN DecodeFrom(b, 4)
    ELSE DecodeFrom(b, 1)

-----------------------------------------------------------------------------
(* BinaryFields: constants *)

\* the code units of the ASCII strings of the source
estate == <<101, 115, 116, 97, 116, 101>>
rank_lvl == <<114, 97, 110, 107, 32, 108, 118, 108>>
uber == <<117, 98, 101, 114>>
gamemode == <<103, 97, 109, 101, 109, 111, 100, 101>>
dsarocketprocentage == <<95, 100, 115, 97, 114, 111, 99, 107, 101, 116,
                         112, 114, 111, 99, 101, 110, 116, 97, 103, 101>>
name == <<110, 97, 109, 101>>

EASY == <<69, 65, 83, 89>>
NORMAL == <<78, 79, 82, 77, 65, 76>>
HARD == <<72, 65, 82, 68>>
SANDBOX == <<83, 65, 78, 68, 66, 79, 88>>

FIELD_NAMES ==
    [ESTATE |-> estate, RANK |-> rank_lvl, UBER |-> uber, GAMEMODE |-> gamemode,
     DSA_SUPPLIES |-> dsarocketprocentage, NAME |-> name]

Keys == DOMAIN FIELD_NAMES

GAMEMODES == {EASY, NORMAL, HARD, SANDBOX}

MAX_RANK == 64

\* type bytes
TYPE_DOUBLE == 7
TYPE_INT32 == 8
TYPE_INT16 == 14
TYPE_INT8 == 15
TYPE_BOOL_TRUE == 17
TYPE_BOOL_FALSE == 18
TYPE_STRING == 22

-----------------------------------------------------------------------------
(* BinaryFields.findField / findAllFields *)

\* the null returned by findField, as a record of the descriptor's shape
NoField == [found |-> FALSE, nameOffset |-> -1, typeOffset |-> -1,
            valueOffset |-> -1, type |-> -1, fieldName |-> <<>>]

\* the inner loop of findField: the pattern's bytes follow offset i
NameMatches(d, pattern, i) ==
    \A j \in 0..(Len(pattern) - 1) : At(d, i + 1 + j) = pattern[j + 1]

\* the descriptor findField builds for a match at offset i
Descriptor(d, pattern, i, fieldName) ==
    LET typeOffset == i + 1 + Len(pattern)
        typeByte == d[typeOffset + 1]
    IN  [found |-> TRUE, nameOffset |-> i, typeOffset |-> typeOffset,
         valueOffset |-> IF typeByte = TYPE_BOOL_TRUE \/ typeByte = TYPE_BOOL_FALSE
                         THEN typeOffset ELSE typeOffset + 1,
         type |-> typeByte, fieldName |-> fieldName]

\* the loop condition of findField
ScanContinues(d, pattern, i) == i < Len(d) - Len(pattern) - 2

\* the loop of findField from offset i on: the descriptor of the first
\* offset the loop reaches that holds the length byte and the name
FindFrom(d, pattern, i, fieldName) ==
    LET hits == {k \in i..(Len(d) - 1) :
                    /\ ScanContinues(d, pattern, k)
                    /\ d[k + 1] = Len(pattern)
                    /\ NameMatches(d, pattern, k)}
    IN  IF hits = {} THEN NoField
        ELSE Descriptor(d, pattern, CHOOSE k \in hits : \A m \in hits : k <= m,
                        fieldName)

findField(d, fieldName) == FindFrom(d, TextEncode(fieldName), 0, fieldName)

\* a key the source leaves out of the map is mapped to NoField
findAllFields(d) == [key \in Keys |-> findField(d, FIELD_NAMES[key])]

-----------------------------------------------------------------------------
(* BinaryUtils: the reads with a bounds check *)

readInt32BE(d, offset) ==
    IF offset < 0 \/ offset + 4 > Len(d) THEN Num(0) ELSE Num(ReadI32(d, offset))

readInt16BE(d, offset) ==
    IF offset < 0 \/ offset + 2 > Len(d) THEN Num(0) ELSE Num(ReadU16(d, offset))

-----------------------------------------------------------------------------
(* BinaryFields: reads *)

readEstate(d, field) ==
    IF ~field.found THEN Null
    ELSE IF field.type = TYPE_DOUBLE
         THEN LET bytes == Slice(d, field.valueOffset, field.valueOffset + 8)
              IN  IF Len(bytes) < 8 THEN RangeError ELSE getFloat64(bytes)
    ELSE IF field.type = TYPE_INT32 THEN Num(ReadI32(d, field.valueOffset))
    ELSE Null

readRank(d, field) ==
    IF ~field.found THEN Null
    ELSE IF field.type = TYPE_INT16 THEN Num(ReadU16(d, field.valueOffset))
    ELSE IF field.type = TYPE_INT8
         THEN IF field.valueOffset < Len(d) THEN Num(d[field.valueOffset + 1])
              ELSE Undefined
    ELSE Null

readUber(d, field) ==
    IF ~field.found THEN Null ELSE Bool(field.type = TYPE_BOOL_TRUE)

readString(d, field) ==
    LET strLen == ReadU16(d, field.valueOffset)
    IN  Str(TextDecode(Slice(d, field.valueOffset + 2,
                             field.valueOffset + 2 + strLen)))

readGamemode(d, field) ==
    IF ~field.found \/ field.type # TYPE_STRING THEN Null ELSE readString(d, field)

readDsaSupplies(d, field) ==
    IF ~field.found \/ field.type # TYPE_INT16 THEN Null
    ELSE Num(ReadU16(d, field.valueOffset))

readName(d, field) ==
    IF ~field.found \/ field.type # TYPE_STRING THEN Null ELSE readString(d, field)

-----------------------------------------------------------------------------
(* BinaryFields: writes.  A write yields [ret, input, output]: ret is what *)
(* the call returns ("undefined", "null", "same" for the very array it was *)
(* given, "new" for a freshly allocated array, "RangeError" when it        *)
(* throws), input is the content of the array it was given after the call, *)
(* output the content of the array the caller holds afterwards.            *)

Returned(ret, input, output) == [ret |-> ret, input |-> input, output |-> output]

\* a write that mutates in place and returns nothing
InPlace(d) == Returned("undefined", d, d)

\* the lower bound left out
Clamp_NoFloor(value, hi) == Min(hi, value)

\* Math.max(0, Math.min(hi, value))
Clamp(value, hi) == Max(0, Min(hi, value))

\* the Int16 cap used where the Int32 cap belongs
ClampInt32_Int16Cap(value) == Clamp(value, 32767)

\* Math.max(0, Math.min(2147483647, Math.floor(value)))
ClampInt32(value) == Clamp(value, 2147483647)

\* the same expression on a number held as Float64Raw, as the integer the
\* shifts (value >> k) then see: NaN passes Math.min and Math.max and is 0
\* to a shift, a negative number is raised to 0, a number of 2^31 or more
\* (Infinity included) is lowered to 2147483647, any other is floored
ClampInt32Float(x) ==
    IF IsNaN(x) THEN 0
    ELSE IF Float64Sign(x.s) = 1 THEN 0
    ELSE IF Float64Biased(x.s) - 1023 >= 31 THEN 2147483647
    ELSE FloorSmall(x.s)

writeEstate(d, field, value) ==
    IF ~field.found THEN InPlace(d)
    ELSE IF field.type = TYPE_DOUBLE
         THEN LET bytes == Float64Bytes(value)
                  o == field.valueOffset
              IN  InPlace(Store(Store(Store(Store(Store(Store(Store(Store(d,
                      o, bytes[1]), o + 1, bytes[2]), o + 2, bytes[3]),
                      o + 3, bytes[4]), o + 4, bytes[5]), o + 5, bytes[6]),
                      o + 6, bytes[7]), o + 7, bytes[8]))
    ELSE IF field.type = TYPE_INT32
         THEN LET v == IF value.t = "float64" THEN ClampInt32Float(value)
                       ELSE ClampInt32(value.n)
                  o == field.valueOffset
              IN  InPlace(Store(Store(Store(Store(d,
                      o, ShiftByte(v, 24)), o + 1, ShiftByte(v, 16)),
                      o + 2, ShiftByte(v, 8)), o + 3, ShiftByte(v, 0)))
    ELSE InPlace(d)

writeRank(d, field, value) ==
    IF ~field.found THEN InPlace(d)
    ELSE LET v == Clamp(value, MAX_RANK)
             o == field.valueOffset
         IN  IF field.type = TYPE_INT16
             THEN InPlace(Store(Store(d, o, ShiftByte(v, 8)), o + 1, ShiftByte(v, 0)))
             ELSE IF field.type = TYPE_INT8
                  THEN InPlace(Store(d, o, ShiftByte(v, 0)))
                  ELSE InPlace(d)

\* the two tags exchanged
writeUber_TagsSwapped(d, field, value) ==
    IF ~field.found THEN InPlace(d)
    ELSE InPlace(Store(d, field.typeOffset, IF value THEN TYPE_BOOL_FALSE ELSE TYPE_BOOL_TRUE))

writeUber(d, field, value) ==
    IF ~field.found THEN InPlace(d)
    ELSE InPlace(Store(d, field.typeOffset, IF value THEN TYPE_BOOL_TRUE ELSE TYPE_BOOL_FALSE))

writeDsaSupplies(d, field, value) ==
    IF ~field.found \/ field.type # TYPE_INT16 THEN InPlace(d)
    ELSE LET v == Clamp(value, 32767)
             o == field.valueOffset
         IN  InPlace(Store(Store(d, o, ShiftByte(v, 8)), o + 1, ShiftByte(v, 0)))

\* the loop  for (i = 0; i < newLen; i++) data[valueOffset + 2 + i] = bytes[i]
\* from index i on; a store outside the array is ignored
CopyBytes(d, o, bytes, i, newLen) ==
    [k \in 1..Len(d) |->
        IF k - 1 - o >= i /\ k - 1 - o < newLen THEN bytes[k - o] % 256 ELSE d[k]]

\* target.set(source, offset) throws when the source does not fit
CanSet(target, source, offset) == offset + Len(source) <= Len(target)

SetBytes(target, source, offset) ==
    [i \in 1..Len(target) |->
        IF i - 1 >= offset /\ i - 1 < offset + Len(source)
        THEN source[i - offset] ELSE target[i]]

\* the rebuild branch shared, line for line, by writeGamemode and writeName
Rebuild(d, field, currentLen, newLen, newBytes) ==
    LET lenDiff == newLen - currentLen
        beforeString == Slice(d, 0, field.valueOffset)
        afterString == SliceFrom(d, field.valueOffset + 2 + currentLen)
        size == Len(d) + lenDiff
        empty == IF size < 0 THEN <<>> ELSE Zeros(size)
        offset1 == Len(beforeString)
        step1 == SetBytes(empty, beforeString, 0)
        step2 == Store(Store(step1, offset1, ShiftByte(newLen, 8)),
                       offset1 + 1, ShiftByte(newLen, 0))
        offset2 == offset1 + 2
        step3 == SetBytes(step2, newBytes, offset2)
        offset3 == offset2 + newLen
        step4 == SetBytes(step3, afterString, offset3)
    IN  IF size < 0 \/ ~CanSet(empty, beforeString, 0)
           \/ ~CanSet(step2, newBytes, offset2)
           \/ ~CanSet(step3, afterString, offset3)
        THEN Returned("RangeError", d, d)
        ELSE Returned("new", d, step4)

writeGamemode(d, field, newGamemode) ==
    IF ~field.found \/ field.type # TYPE_STRING THEN Returned("null", d, d)
    ELSE IF newGamemode \notin GAMEMODES THEN Returned("null", d, d)
    ELSE LET currentLen == ReadU16(d, field.valueOffset)
             newLen == Len(newGamemode)
             newGamemodeBytes == TextEncode(newGamemode)
         IN  IF newLen - currentLen = 0
             THEN LET d2 == CopyBytes(d, field.valueOffset + 2,
                                      newGamemodeBytes, 0, newLen)
                  IN  Returned("same", d2, d2)
             ELSE Rebuild(d, field, currentLen, newLen, newGamemodeBytes)

\* newName.substring(0, 255) when newName.length > 255
Truncate(newName) ==
    IF Len(newName) > 255 THEN SubSeq(newName, 1, 255) ELSE newName

writeName(d, field, newName) ==
    IF ~field.found \/ field.type # TYPE_STRING THEN Returned("null", d, d)
    ELSE LET text == Truncate(newName)
             currentLen == ReadU16(d, field.valueOffset)
             newLen == Len(text)
             newNameBytes == TextEncode(text)
         IN  IF newLen - currentLen = 0
             THEN LET d2 == CopyBytes(d, field.valueOffset + 2,
                                      newNameBytes, 0, newLen)
                  IN  Returned("same", d2, d2)
             ELSE Rebuild(d, field, currentLen, newLen, newNameBytes)

-----------------------------------------------------------------------------
(* Save bodies: a flat sequence of fields, each the 1-byte name length,    *)
(* the name, the type byte and the value bytes of the type.                *)

Field(fieldName, type, valueBytes) ==
    <<Len(fieldName)>> \o TextEncode(fieldName) \o <<type>> \o valueBytes

\* [length_int16_BE][string_bytes]
StringBytes(text) ==
    LET bytes == TextEncode(text)
    IN  <<ShiftByte(Len(bytes), 8), ShiftByte(Len(bytes), 0)>> \o bytes

Int16Bytes(v) == <<ShiftByte(v, 8), ShiftByte(v, 0)>>
Int32Bytes(v) == <<ShiftByte(v, 24), ShiftByte(v, 16), ShiftByte(v, 8), ShiftByte(v, 0)>>

\* a field of the save that is not in FIELD_NAMES
habitants == <<104, 97, 98, 105, 116, 97, 110, 116, 115>>

\* texts used as city names
Alfa == <<65, 108, 102, 97>>
Beta == <<66, 101, 116, 97>>
Foo == <<70, 111, 111>>
Bo == <<66, 111>>
LongerFoo == <<76, 111, 110, 103, 101, 114, 70, 111, 111>>
EAcute == <<233>>
Zoe == <<90, 111, 235>>
Euro == <<8364>>
EXPERT == <<69, 88, 80, 69, 82, 84>>

\* a name of 256 letters, one more than writeName keeps
LongName == [i \in 1..256 |-> 97]

\* name and gamemode first, the numeric fields after them
SaveA ==
    Field(name, TYPE_STRING, StringBytes(Foo))
    \o Field(gamemode, TYPE_STRING, StringBytes(EASY))
    \o Field(estate, TYPE_INT32, Int32Bytes(1000))
    \o Field(rank_lvl, TYPE_INT16, Int16Bytes(3))
    \o Field(uber, TYPE_BOOL_FALSE, <<>>)
    \o Field(dsarocketprocentage, TYPE_INT16, Int16Bytes(100))
    \o Field(habitants, TYPE_INT32, Int32Bytes(12))

\* a late-game save: money as a double, rank as one byte, no supplies
SaveB ==
    Field(estate, TYPE_DOUBLE, setFloat64(5000))
    \o Field(rank_lvl, TYPE_INT8, <<7>>)
    \o Field(uber, TYPE_BOOL_TRUE, <<>>)
    \o Field(name, TYPE_STRING, StringBytes(Alfa))
    \o Field(gamemode, TYPE_STRING, StringBytes(HARD))
    \o Field(habitants, TYPE_INT32, Int32Bytes(12))

\* a save whose last field is the boolean: its type byte ends the buffer
SaveC ==
    Field(name, TYPE_STRING, StringBytes(Alfa))
    \o Field(estate, TYPE_INT32, Int32Bytes(1000))
    \o Field(uber, TYPE_BOOL_FALSE, <<>>)

\* a new city: money as Int16 (MONEY_TYPE_GUIDE), name after the numbers
SaveD ==
    Field(estate, TYPE_INT16, Int16Bytes(25000))
    \o Field(rank_lvl, TYPE_INT16, Int16Bytes(0))
    \o Field(gamemode, TYPE_STRING, StringBytes(NORMAL))
    \o Field(uber, TYPE_BOOL_TRUE, <<>>)
    \o Field(name, TYPE_STRING, StringBytes(Foo))
    \o Field(dsarocketprocentage, TYPE_INT16, Int16Bytes(0))
    \o Field(habitants, TYPE_INT32, Int32Bytes(12))

Saves == {SaveA, SaveB, SaveC, SaveD}

\* a save whose gamemode is not one of GAMEMODES
SaveE ==
    Field(name, TYPE_STRING, StringBytes(Foo))
    \o Field(gamemode, TYPE_STRING, StringBytes(EXPERT))
    \o Field(estate, TYPE_INT32, Int32Bytes(1000))
    \o Field(rank_lvl, TYPE_INT16, Int16Bytes(3))
    \o Field(uber, TYPE_BOOL_FALSE, <<>>)

\* a new city in debt: money as Int16 with the sign bit set (-500)
SaveF ==
    Field(estate, TYPE_INT16, <<254, 12>>)
    \o Field(rank_lvl, TYPE_INT16, Int16Bytes(0))
    \o Field(gamemode, TYPE_STRING, StringBytes(NORMAL))
    \o Field(name, TYPE_STRING, StringBytes(Alfa))

\* arguments of the calls
MoneyValues == {-5, 0, 25000, 2147483647}
ThreeBillion == Float64Raw(Doubled(setFloat64(1500000000)))
\* 2000000000000, above the warning threshold of the validator
TwoTrillion == Float64Raw(<<66, 125, 26, 148, 162, 0, 0, 0>>)
MoneyNumbers ==
    {Num(v) : v \in MoneyValues}
        \cup {ThreeBillion, TwoTrillion, NaN, PosInfinity, NegInfinity}
RankValues == {-5, 0, 7, 64, 32768}
SuppliesValues == {-5, 0, 300, 32767, 32768}
NameTexts == {Beta, Bo, LongerFoo, EAcute, Zoe, Euro, uber, LongName}
GamemodeTexts == GAMEMODES \cup {EXPERT}

-----------------------------------------------------------------------------
(* Codec level: a caller owns one buffer, and for each edit scans it for   *)
(* the field, calls the write with the descriptor found and keeps the      *)
(* array the write leaves it with.                                         *)

NoCall == [op |-> "none", field |-> NoField, arg |-> Undefined,
           pre |-> <<>>, res |-> Returned("undefined", <<>>, <<>>)]

Called(op, field, arg, pre, res) ==
    [op |-> op, field |-> field, arg |-> arg, pre |-> pre, res |-> res]

\* the header fields the editor mirrors; header['rank lvl'] is rank_lvl
Header(money, rank, cityName, mode, uberMode) ==
    [money |-> money, rank_lvl |-> rank, name |-> cityName,
     gamemode |-> mode, uber |-> uberMode,
     last_modified |-> Undefined, save_counter |-> Undefined]

NoHeader == Header(Undefined, Undefined, Undefined, Undefined, Undefined)

-----------------------------------------------------------------------------
(* JSON.stringify and JSON.parse on a header.  The header is the object    *)
(* with the seven properties the editor reads or writes, in this order; a  *)
(* property that is undefined is left out of the text, and a property of   *)
(* the text that is not one of the seven is not kept.                      *)

money == <<109, 111, 110, 101, 121>>
last_modified == <<108, 97, 115, 116, 32, 109, 111, 100, 105, 102, 105, 101, 100>>
save_counter == <<115, 97, 118, 101, 32, 99, 111, 117, 110, 116, 101, 114>>

HeaderKeys == <<"money", "rank_lvl", "name", "gamemode", "uber",
                "last_modified", "save_counter">>

KeyText == [money |-> money, rank_lvl |-> rank_lvl, name |-> name,
            gamemode |-> gamemode, uber |-> uber,
            last_modified |-> last_modified, save_counter |-> save_counter]

trueText == <<116, 114, 117, 101>>
falseText == <<102, 97, 108, 115, 101>>
nullText == <<110, 117, 108, 108>>

MinOf(set) == CHOOSE m \in set : \A o \in set : m <= o
MaxOf(set) == CHOOSE m \in set : \A o \in set : m >= o

\* the decimal digits of a natural number
RECURSIVE Digits(_)
Digits(n) == IF n < 10 THEN <<48 + n>> ELSE Digits(n \div 10) \o <<48 + (n % 10)>>

RECURSIVE IntOfDigits(_)
IntOfDigits(ds) ==
    IF Len(ds) = 0 THEN 0
    ELSE 10 * IntOfDigits(SubSeq(ds, 1, Len(ds) - 1)) + (ds[Len(ds)] - 48)

\* An integer below 2^53 is the triple <<a, b, c>> of value
\* a * 10^12 + b * 10^6 + c, each of the three below 10^6
Million == 1000000

\* the integer whose base-256 digits are bs
RECURSIVE BigOfBytes(_)
BigOfBytes(bs) ==
    IF Len(bs) = 0 THEN <<0, 0, 0>>
    ELSE LET p == BigOfBytes(SubSeq(bs, 1, Len(bs) - 1))
             c == p[3] * 256 + bs[Len(bs)]
             b == p[2] * 256 + (c \div Million)
         IN  <<p[1] * 256 + (b \div Million), b % Million, c % Million>>

\* the base-256 digits of an integer
RECURSIVE BytesOfBig(_)
BytesOfBig(big) ==
    IF big = <<0, 0, 0>> THEN <<>>
    ELSE LET b == (big[1] % 256) * Million + big[2]
             c == (b % 256) * Million + big[3]
         IN  BytesOfBig(<<big[1] \div 256, b \div 256, c \div 256>>) \o <<c % 256>>

\* the bits of a sequence of bytes
BitsOfBytes(bs) ==
    [i \in 1..(8 * Len(bs)) |-> (bs[((i - 1) \div 8) + 1] \div (2 ^ (7 - ((i - 1) % 8)))) % 2]

\* the 8 bytes of the double of a positive integer below 2^53
DoubleOfBig(sign, big) ==
    LET b == BitsOfBytes(BytesOfBig(big))
        first == MinOf({i \in DOMAIN b : b[i] = 1})
        e == Len(b) - first
        bits == <<sign>> \o Bits(1023 + e, 11) \o SubSeq(b, first + 1, Len(b))
                \o Zeros(52 - e)
    IN  [k \in 1..8 |-> BitsValue(SubSeq(bits, 8 * k - 7, 8 * k))]

\* six digits
Pad6(n) == LET d == Digits(n) IN [i \in 1..(6 - Len(d)) |-> 48] \o d

BigText(big) ==
    IF big[1] > 0 THEN Digits(big[1]) \o Pad6(big[2]) \o Pad6(big[3])
    ELSE IF big[2] > 0 THEN Digits(big[2]) \o Pad6(big[3])
    ELSE Digits(big[3])

\* the text of a finite double that is an integer below 2^53
FloatText(bytes) ==
    LET bits == BitsOfBytes(bytes)
        e == Float64Biased(bytes) - 1023
        mantissa == <<1>> \o SubSeq(bits, 13, 12 + e)
        padded == Zeros((8 - (Len(mantissa) % 8)) % 8) \o mantissa
        bs == [k \in 1..(Len(padded) \div 8) |->
                  BitsValue(SubSeq(padded, 8 * k - 7, 8 * k))]
    IN  (IF bits[1] = 1 THEN <<45>> ELSE <<>>) \o BigText(BigOfBytes(bs))

\* a number: NaN and the infinities are written as null
NumberText(v) ==
    IF v.t = "number"
    THEN IF v.n < 0 THEN <<45>> \o Digits(0 - v.n) ELSE Digits(v.n)
    ELSE IF IsFinite(v) THEN FloatText(v.s) ELSE nullText

\* a string between quotes, a quote or a backslash in it after a backslash
RECURSIVE Escaped(_)
Escaped(u) ==
    LET special == {i \in DOMAIN u : u[i] \in {34, 92}}
    IN  IF special = {} THEN u
        ELSE LET first == MinOf(special)
             IN  SubSeq(u, 1, first - 1) \o <<92, u[first]>>
                 \o Escaped(SubSeq(u, first + 1, Len(u)))

RECURSIVE Unescaped(_)
Unescaped(u) ==
    LET slashes == {i \in DOMAIN u : u[i] = 92}
    IN  IF slashes = {} THEN u
        ELSE LET first == MinOf(slashes)
             IN  SubSeq(u, 1, first - 1) \o SubSeq(u, first + 1, first + 1)
                 \o Unescaped(SubSeq(u, first + 2, Len(u)))

Quoted(u) == <<34>> \o Escaped(u) \o <<34>>

ValueText(v) ==
    CASE v.t = "string" -> Quoted(v.s)
      [] v.t = "boolean" -> IF v.n = 1 THEN trueText ELSE falseText
      [] v.t = "null" -> nullText
      [] OTHER -> NumberText(v)

RECURSIVE JoinMembers(_, _)
JoinMembers(h, keys) ==
    IF Len(keys) = 0 THEN <<>>
    ELSE Quoted(KeyText[keys[1]]) \o <<58>> \o ValueText(h[keys[1]])
         \o (IF Len(keys) > 1 THEN <<44>> ELSE <<>>)
         \o JoinMembers(h, Tail(keys))

\* the keys of the properties that are not undefined
RECURSIVE Present(_, _)
Present(h, keys) ==
    IF Len(keys) = 0 THEN <<>>
    ELSE (IF h[keys[1]] = Undefined THEN <<>> ELSE <<keys[1]>>)
         \o Present(h, Tail(keys))

\* JSON.stringify(header)
JSON_stringify(h) == <<123>> \o JoinMembers(h, Present(h, HeaderKeys)) \o <<125>>

\* the number of backslashes right before index j
SlashesBefore(t, j) ==
    LET others == {k \in 1..(j - 1) : t[k] # 92}
    IN  (j - 1) - (IF others = {} THEN 0 ELSE MaxOf(others))

\* the quote that closes the string whose text starts at index i
CloseQuote(t, i) ==
    MinOf({j \in i..Len(t) : t[j] = 34 /\ SlashesBefore(t, j) % 2 = 0})

\* true, false, null or a number
Literal(u) ==
    IF u = trueText THEN Bool(TRUE)
    ELSE IF u = falseText THEN Bool(FALSE)
    ELSE IF u = nullText THEN Null
    ELSE LET negative == u[1] = 45
             ds == IF negative THEN Tail(u) ELSE u
             big == <<IntOfDigits(SubSeq(ds, 1, Len(ds) - 12)),
                      IntOfDigits(SubSeq(ds, Max(Len(ds) - 11, 1), Len(ds) - 6)),
                      IntOfDigits(SubSeq(ds, Max(Len(ds) - 5, 1), Len(ds)))>>
             small == big[2] * Million + big[3]
         IN  IF big[1] = 0 /\ (big[2] < 2147 \/ (big[2] = 2147 /\ big[3] <= 483647))
             THEN Num(IF negative THEN 0 - small ELSE small)
             ELSE Float64Raw(DoubleOfBig(IF negative THEN 1 ELSE 0, big))

\* the members of the object text from index i, the opening quote of a key
RECURSIVE ParseMembers(_, _, _)
ParseMembers(t, i, h) ==
    IF i > Len(t) \/ t[i] # 34 THEN h
    ELSE LET keyEnd == CloseQuote(t, i + 1)
             key == Unescaped(SubSeq(t, i + 1, keyEnd - 1))
             start == keyEnd + 2
             isString == t[start] = 34
             after == IF isString THEN CloseQuote(t, start + 1) + 1
                      ELSE MinOf({j \in start..Len(t) : t[j] \in {44, 125}})
             value == IF isString
                      THEN Str(Unescaped(SubSeq(t, start + 1, after - 2)))
                      ELSE Literal(SubSeq(t, start, after - 1))
             known == {k \in DOMAIN KeyText : KeyText[k] = key}
         IN  ParseMembers(t, after + 1,
                          [k \in DOMAIN h |-> IF k \in known THEN value ELSE h[k]])

\* JSON.parse(headerText)
JSON_parse(t) == ParseMembers(t, 2, NoHeader)

-----------------------------------------------------------------------------
(* pako.gzip and pako.ungzip.  The library is not part of the repository:  *)
(* the compressed form is a gzip member whose DEFLATE stream is one stored *)
(* block, closed by a checksum of the bytes (their sum, in place of the    *)
(* CRC-32) and their count, both little-endian.                            *)

GzipHeader == <<31, 139, 8, 0, 0, 0, 0, 0, 0, 3>>

RECURSIVE SumBytes(_, _, _)
SumBytes(d, lo, hi) ==
    IF lo > hi THEN 0
    ELSE IF lo = hi THEN d[lo]
    ELSE LET mid == (lo + hi) \div 2
         IN  SumBytes(d, lo, mid) + SumBytes(d, mid + 1, hi)

LittleEndian32(v) == <<ShiftByte(v, 0), ShiftByte(v, 8), ShiftByte(v, 16), ShiftByte(v, 24)>>

gzip(d) ==
    GzipHeader
    \o <<1, Len(d) % 256, Len(d) \div 256, 255 - (Len(d) % 256), 255 - (Len(d) \div 256)>>
    \o d \o LittleEndian32(SumBytes(d, 1, Len(d))) \o LittleEndian32(Len(d))

\* ok is FALSE when pako throws
ungzip(c) ==
    LET len == At(c, 11) + 256 * At(c, 12)
        d == Slice(c, 15, 15 + len)
    IN  IF /\ Len(c) = 23 + len
           /\ Slice(c, 0, 10) = GzipHeader
           /\ At(c, 10) = 1
           /\ At(c, 13) = 255 - At(c, 11) /\ At(c, 14) = 255 - At(c, 12)
           /\ Slice(c, 15 + len, 19 + len) = LittleEndian32(SumBytes(d, 1, Len(d)))
           /\ Slice(c, 19 + len, 23 + len) = LittleEndian32(len)
        THEN [ok |-> TRUE, data |-> d]
        ELSE [ok |-> FALSE, data |-> <<>>]

-----------------------------------------------------------------------------
(* FileParser *)

\* the file built by serialize: header length, header text, compressed body
fileData(header, binaryData) ==
    LET headerBytes == TextEncode(JSON_stringify(header))
        headerLen == Len(headerBytes)
    IN  <<ShiftByte(headerLen, 8), ShiftByte(headerLen, 0)>>
        \o headerBytes \o gzip(binaryData)

\* cityData.header['save counter'] || 0
CounterOrZero(v) == IF v.t = "number" THEN v.n ELSE 0

\* FileParser.serialize at the instant now: the header of cityData is
\* updated in place
serialize(cityData, now) ==
    LET header == [cityData.header EXCEPT
                       !.last_modified = now,
                       !.save_counter = Num(CounterOrZero(@) + 1)]
    IN  [city |-> [cityData EXCEPT !.header = header],
         fileData |-> fileData(header, cityData.binaryData)]

\* currentCity = null
NoCity == [loaded |-> FALSE, header |-> NoHeader, binaryData |-> <<>>,
           originalHeader |-> NoHeader, originalBinary |-> <<>>]

\* binaryFields = null, and the map of a buffer without any table field
NoFields == [key \in Keys |-> NoField]

NoSessionCall == [op |-> "none", arg |-> Undefined, ret |-> Undefined]

\* memoryBackup = null
NoBackup == [stored |-> FALSE, filename |-> Null, data |-> <<>>, header |-> NoHeader]

SessionIdle ==
    /\ currentCity = NoCity
    /\ binaryFields = NoFields
    /\ hasChanges = FALSE
    /\ undoStack = <<>>
    /\ redoStack = <<>>
    /\ isApplyingHistory = FALSE
    /\ call = NoSessionCall
    /\ fileName = Null
    /\ memoryBackup = NoBackup
    /\ moves = 0
    /\ loads = <<>>

sessionVars == <<currentCity, binaryFields, hasChanges, undoStack, redoStack,
                 isApplyingHistory, call, fileName, memoryBackup, moves, loads>>

Init ==
    /\ data \in Saves
    /\ last = NoCall
    /\ ops = 0
    /\ SessionIdle

\* one call of a BinaryFields write on the caller's buffer
Apply(op, fieldName, arg, res) ==
    /\ ops < MaxOps
    /\ ops' = ops + 1
    /\ last' = Called(op, findField(data, fieldName), arg, data, res)
    /\ data' = res.output
    /\ UNCHANGED sessionVars

WriteEstate ==
    \E x \in MoneyNumbers :
        Apply("writeEstate", estate, x,
              writeEstate(data, findField(data, estate), x))

WriteRank ==
    \E v \in RankValues :
        Apply("writeRank", rank_lvl, Num(v),
              writeRank(data, findField(data, rank_lvl), v))

WriteDsaSupplies ==
    \E v \in SuppliesValues :
        Apply("writeDsaSupplies", dsarocketprocentage, Num(v),
              writeDsaSupplies(data, findField(data, dsarocketprocentage), v))

WriteUber ==
    \E b \in BOOLEAN :
        Apply("writeUber", uber, Bool(b),
              writeUber(data, findField(data, uber), b))

WriteGamemode ==
    \E t \in GamemodeTexts :
        Apply("writeGamemode", gamemode, Str(t),
              writeGamemode(data, findField(data, gamemode), t))

WriteName ==
    \E t \in NameTexts :
        Apply("writeName", name, Str(t),
              writeName(data, findField(data, name), t))

Next ==
    \/ WriteEstate
    \/ WriteRank
    \/ WriteDsaSupplies
    \/ WriteUber
    \/ WriteGamemode
    \/ WriteName

Spec == Init /\ [][Next]_vars

-----------------------------------------------------------------------------
(* HistoryManager.  An entry keeps the type, field, oldValue and newValue  *)
(* of the recorded action; its timestamp and description are not used by   *)
(* undo and redo.                                                          *)

maxHistory == 50

Action(type, field, oldValue, newValue) ==
    [type |-> type, field |-> field, oldValue |-> oldValue, newValue |-> newValue]

\* the stack never trimmed
record_NeverTrims(S, action) ==
    IF S.isApplyingHistory THEN S
    ELSE IF action.oldValue = action.newValue THEN S
    ELSE [S EXCEPT !.undoStack = Append(S.undoStack, action),
                   !.redoStack = <<>>]

\* HistoryManager.record, on the session state S
record(S, action) ==
    IF S.isApplyingHistory THEN S
    ELSE IF action.oldValue = action.newValue THEN S
    ELSE LET pushed == Append(S.undoStack, action)
         IN  [S EXCEPT !.undoStack = IF Len(pushed) > maxHistory
                                     THEN Tail(pushed) ELSE pushed,
                       !.redoStack = <<>>]

canUndo(S) == Len(S.undoStack) > 0
canRedo(S) == Len(S.redoStack) > 0

\* HistoryManager.popUndo / popRedo: the state after the move
popUndo(S) ==
    IF Len(S.undoStack) = 0 THEN S
    ELSE [S EXCEPT !.undoStack = SubSeq(@, 1, Len(@) - 1),
                   !.redoStack = Append(@, S.undoStack[Len(S.undoStack)])]

popRedo(S) ==
    IF Len(S.redoStack) = 0 THEN S
    ELSE [S EXCEPT !.redoStack = SubSeq(@, 1, Len(@) - 1),
                   !.undoStack = Append(@, S.redoStack[Len(S.redoStack)])]

\* HistoryManager.clear
clearHistory(S) == [S EXCEPT !.undoStack = <<>>, !.redoStack = <<>>]

startApplying(S) == [S EXCEPT !.isApplyingHistory = TRUE]
stopApplying(S) == [S EXCEPT !.isApplyingHistory = FALSE]

-----------------------------------------------------------------------------
(* CityManager.  A method maps the session state S (the fields of          *)
(* CityManager and HistoryManager) to [state, ret]: the state it leaves     *)
(* and the value it returns, RangeError when it throws.                    *)

Result(S, ret) == [state |-> S, ret |-> ret]

\* the number a value is converted to by Math.min / Math.max
ToNumber(v) == IF v.t = "number" THEN v.n ELSE 0

WhiteSpace == {9, 10, 11, 12, 13, 32, 160, 5760, 8232, 8233, 8239, 8287, 12288, 65279}
                  \cup (8192..8202)

\* String.prototype.trim
RECURSIVE TrimStart(_)
TrimStart(u) ==
    IF Len(u) > 0 /\ u[1] \in WhiteSpace THEN TrimStart(Tail(u)) ELSE u

RECURSIVE TrimEnd(_)
TrimEnd(u) ==
    IF Len(u) > 0 /\ u[Len(u)] \in WhiteSpace
    THEN TrimEnd(SubSeq(u, 1, Len(u) - 1)) ELSE u

trim(u) == TrimEnd(TrimStart(u))

\* FileParser.parse; loaded is FALSE when it throws
parse(buffer) ==
    LET headerLen == ReadU16(buffer, 0)
        headerBytes == Slice(buffer, 2, 2 + headerLen)
        header == JSON_parse(TextDecode(headerBytes))
        binaryData == ungzip(SliceFrom(buffer, 2 + headerLen))
    IN  IF ~binaryData.ok THEN NoCity
        ELSE [loaded |-> TRUE, header |-> header, binaryData |-> binaryData.data,
              originalHeader |-> header, originalBinary |-> binaryData.data]

-----------------------------------------------------------------------------
(* Validator.  errors and warnings are the sequences of messages, each     *)
(* message without the value it quotes.                                    *)

\* Number.MAX_VALUE, Number.MAX_SAFE_INTEGER and 1000000000000 as doubles
MAX_VALUE == Float64Raw(<<127, 239, 255, 255, 255, 255, 255, 255>>)
MAX_SAFE_INTEGER == Float64Raw(<<67, 63, 255, 255, 255, 255, 255, 255>>)
OneTrillion == Float64Raw(<<66, 109, 26, 148, 162, 0, 0, 0>>)

\* a < b for the bytes of two doubles, neither of them NaN
LexLess(a, b) == \E i \in 1..8 : a[i] < b[i] /\ \A j \in 1..(i - 1) : a[j] = b[j]
Magnitude(a) == [a EXCEPT ![1] = @ % 128]
Float64Less(a, b) ==
    IF Float64Sign(a) = 0 /\ Float64Sign(b) = 0 THEN LexLess(a, b)
    ELSE IF Float64Sign(a) = 1 /\ Float64Sign(b) = 1
         THEN LexLess(Magnitude(b), Magnitude(a))
    ELSE Float64Sign(a) = 1 /\ (Magnitude(a) # Zeros(8) \/ b # Zeros(8))

\* x < y for two numbers: false when one of them is NaN
Less(x, y) ==
    ~IsNaN(x) /\ ~IsNaN(y) /\ Float64Less(Float64Bytes(x), Float64Bytes(y))

CONSTRAINTS ==
    [estate |-> [min |-> Num(0), max |-> Undefined, warnAbove |-> OneTrillion,
                 name |-> "Money (Estate)"],
     rank |-> [min |-> Num(0), max |-> Num(64), warnAbove |-> Undefined,
               name |-> "Rank Level"],
     dsaSupplies |-> [min |-> Num(0), max |-> Num(32767), warnAbove |-> Undefined,
                      name |-> "DSA Supplies"]]

\* CONSTRAINTS.name.maxLength
maxLength == 255

\* TYPE_MAX_VALUES[type] || Number.MAX_SAFE_INTEGER
TYPE_MAX_VALUES(type) ==
    CASE type = TYPE_INT16 -> Num(32767)
      [] type = TYPE_INT8 -> Num(127)
      [] type = TYPE_INT32 -> Num(2147483647)
      [] type \in {16, TYPE_DOUBLE} -> MAX_VALUE
      [] OTHER -> MAX_SAFE_INTEGER

getEstateConstraint(estateField) ==
    [CONSTRAINTS.estate EXCEPT
        !.max = IF estateField.found /\ estateField.type # 0
                THEN TYPE_MAX_VALUES(estateField.type) ELSE MAX_SAFE_INTEGER]

NoFinding == [error |-> <<>>, warning |-> <<>>]

checkNumericFieldWithConstraint(constraint, value) ==
    IF value.t \notin {"number", "float64"} \/ IsNaN(value)
    THEN [NoFinding EXCEPT !.error = <<constraint.name \o ": Invalid number value">>]
    ELSE IF Less(value, constraint.min)
    THEN [NoFinding EXCEPT !.error = <<constraint.name \o ": below minimum">>]
    ELSE IF constraint.max # Undefined /\ Less(constraint.max, value)
    THEN [NoFinding EXCEPT !.error = <<constraint.name \o ": exceeds maximum">>]
    ELSE IF constraint.warnAbove # Undefined /\ Less(constraint.warnAbove, value)
    THEN [NoFinding EXCEPT !.warning = <<constraint.name \o ": Very high value">>]
    ELSE NoFinding

\* a value that is null is not checked
checkUnlessNull(constraint, value) ==
    IF value = Null THEN NoFinding
    ELSE checkNumericFieldWithConstraint(constraint, value)

\* the name check of validate
checkName(cityName) ==
    IF cityName.t # "string" \/ Len(trim(cityName.s)) = 0
    THEN <<"City name cannot be empty">>
    ELSE IF Len(cityName.s) > maxLength THEN <<"City name too long">>
    ELSE <<>>

\* an unknown gamemode passed without a message
checkGamemode_Silent(mode) == <<>>

\* the gamemode check of validate: its warnings
checkGamemode(mode) ==
    IF mode.t = "string" /\ Len(mode.s) > 0 /\ mode.s \notin GAMEMODES
    THEN <<"Unknown gamemode">> ELSE <<>>

checkBinaryIntegrity(fields) ==
    IF ~fields.GAMEMODE.found
    THEN <<"Some fields not found in binary: GAMEMODE">> ELSE <<>>

\* Validator.validate
Validator_validate(cityData, fields, editable) ==
    IF Len(cityData.binaryData) = 0
    THEN [valid |-> FALSE, errors |-> <<"Missing or empty binary data">>,
          warnings |-> <<>>, threw |-> FALSE]
    ELSE LET e == checkUnlessNull(getEstateConstraint(fields.ESTATE),
                                  editable.binaryEstate)
             r == checkUnlessNull(CONSTRAINTS.rank, editable.binaryRank)
             d == checkUnlessNull(CONSTRAINTS.dsaSupplies, editable.binaryDsaSupplies)
             errors == checkName(cityData.header.name)
                       \o e.error \o r.error \o d.error
             warnings == checkGamemode(cityData.header.gamemode)
                         \o e.warning \o r.warning \o d.warning
                         \o checkBinaryIntegrity(fields)
         IN  [valid |-> Len(errors) = 0, errors |-> errors, warnings |-> warnings,
              threw |-> FALSE]

\* new Blob([bytes])
Blob(bytes) == [t |-> "Blob", n |-> 0, s |-> bytes]

\* a rejected promise
Rejected == [t |-> "Error", n |-> 0, s |-> <<>>]

\* BackupManager.retrieve: the backup in memory when its name matches
retrieve(S, filename) ==
    IF S.memoryBackup.stored /\ S.memoryBackup.filename = filename
    THEN S.memoryBackup ELSE NoBackup

\* BackupManager.getAsBlob
getAsBlob(S, filename) ==
    LET backup == retrieve(S, filename)
    IN  IF ~backup.stored THEN Null ELSE Blob(backup.data)

\* CityManager.getOriginalBlob
getOriginalBlob(S) == getAsBlob(S, S.fileName)

\* BackupManager.store: the backup kept in memory
store(filename, d, header) ==
    [stored |-> TRUE, filename |-> filename, data |-> d, header |-> header]

\* CityManager.load, run to completion
load(S, file) ==
    LET city == parse(file.bytes)
    IN  IF ~city.loaded THEN Result(S, Rejected)
        ELSE
        Result([S EXCEPT !.currentCity = city,
                         !.hasChanges = FALSE,
                         !.binaryFields = findAllFields(city.binaryData),
                         !.fileName = file.name,
                         !.memoryBackup = store(file.name, city.originalBinary,
                                                city.originalHeader),
                         !.undoStack = <<>>,
                         !.redoStack = <<>>],
               Undefined)

setMoney(S, value) ==
    IF ~S.currentCity.loaded THEN Result(S, Undefined)
    ELSE LET written == writeEstate(S.currentCity.binaryData,
                                    S.binaryFields.ESTATE, value)
         IN  Result([S EXCEPT !.currentCity.header.money = value,
                              !.currentCity.binaryData = written.output,
                              !.hasChanges = TRUE],
                    Undefined)

setRank(S, value) ==
    IF ~S.currentCity.loaded THEN Result(S, Undefined)
    ELSE LET v == Clamp(ToNumber(value), MAX_RANK)
             written == writeRank(S.currentCity.binaryData, S.binaryFields.RANK, v)
         IN  Result([S EXCEPT !.currentCity.header.rank_lvl = Num(v),
                              !.currentCity.binaryData = written.output,
                              !.hasChanges = TRUE],
                    Undefined)

\* an absent field treated as a failure
StoreString_ThrowsWhenAbsent(S, present, written) ==
    IF ~present THEN Result(S, RangeError)
    ELSE IF written.ret = "RangeError" THEN Result(S, RangeError)
    ELSE IF written.ret = "null" THEN Result(S, Bool(FALSE))
    ELSE Result([S EXCEPT !.currentCity.binaryData = written.output,
                          !.binaryFields = findAllFields(written.output),
                          !.hasChanges = TRUE],
                Bool(TRUE))

\* the part setGamemode and setName share once the header is updated: the
\* write, and on success the new buffer and a scan for all fields
StoreString(S, present, written) ==
    IF ~present THEN Result([S EXCEPT !.hasChanges = TRUE], Bool(TRUE))
    ELSE IF written.ret = "RangeError" THEN Result(S, RangeError)
    ELSE IF written.ret = "null" THEN Result(S, Bool(FALSE))
    ELSE Result([S EXCEPT !.currentCity.binaryData = written.output,
                          !.binaryFields = findAllFields(written.output),
                          !.hasChanges = TRUE],
                Bool(TRUE))

setGamemode(S, value) ==
    IF ~S.currentCity.loaded THEN Result(S, Bool(FALSE))
    ELSE LET S1 == [S EXCEPT !.currentCity.header.gamemode = value]
         IN  StoreString(S1, S.binaryFields.GAMEMODE.found,
                         writeGamemode(S.currentCity.binaryData,
                                       S.binaryFields.GAMEMODE, value.s))

setName(S, value) ==
    IF ~S.currentCity.loaded THEN Result(S, Bool(FALSE))
    ELSE LET text == trim(value.s)
         IN  IF Len(text) = 0 THEN Result(S, Bool(FALSE))
             ELSE LET S1 == [S EXCEPT !.currentCity.header.name = Str(text)]
                  IN  StoreString(S1, S.binaryFields.NAME.found,
                                  writeName(S.currentCity.binaryData,
                                            S.binaryFields.NAME, text))

toggleUber(S) ==
    IF ~S.currentCity.loaded \/ ~S.binaryFields.UBER.found THEN Result(S, Undefined)
    ELSE LET currentValue == readUber(S.currentCity.binaryData, S.binaryFields.UBER)
             newValue == currentValue.n = 0
             written == writeUber(S.currentCity.binaryData, S.binaryFields.UBER, newValue)
         IN  Result([S EXCEPT !.currentCity.header.uber = Bool(newValue),
                              !.currentCity.binaryData = written.output,
                              !.binaryFields.UBER = findField(written.output, uber),
                              !.hasChanges = TRUE],
                    Bool(newValue))

setDsaSupplies(S, value) ==
    IF ~S.currentCity.loaded \/ ~S.binaryFields.DSA_SUPPLIES.found
    THEN Result(S, Undefined)
    ELSE LET oldValue == readDsaSupplies(S.currentCity.binaryData,
                                         S.binaryFields.DSA_SUPPLIES)
             v == Clamp(ToNumber(value), 32767)
             S1 == record(S, Action("setDsaSupplies", "dsaSupplies", oldValue, Num(v)))
             written == writeDsaSupplies(S.currentCity.binaryData,
                                         S.binaryFields.DSA_SUPPLIES, v)
         IN  Result([S1 EXCEPT !.currentCity.binaryData = written.output,
                               !.hasChanges = TRUE],
                    Undefined)

\* CityManager.applyValue; its result is the state and whether it threw
applyValue(S, field, value) ==
    CASE field \in {"money", "estate"} -> setMoney(S, value)
      [] field = "rank" -> setRank(S, value)
      [] field = "name" -> setName(S, value)
      [] field = "gamemode" -> setGamemode(S, value)
      [] field = "uber" ->
            IF readUber(S.currentCity.binaryData, S.binaryFields.UBER) # value
            THEN toggleUber(S) ELSE Result(S, Undefined)
      [] field = "dsaSupplies" -> setDsaSupplies(S, value)
      [] OTHER -> Result(S, Undefined)

\* startApplying, applyValue, stopApplying: a throw skips stopApplying
Applying(S, field, value) ==
    LET applied == applyValue([S EXCEPT !.isApplyingHistory = TRUE], field, value)
    IN  IF applied.ret = RangeError THEN applied
        ELSE Result([applied.state EXCEPT !.isApplyingHistory = FALSE], Bool(TRUE))

undo(S) ==
    IF ~canUndo(S) THEN Result(S, Bool(FALSE))
    ELSE LET action == S.undoStack[Len(S.undoStack)]
         IN  Applying(popUndo(S), action.field, action.oldValue)

redo(S) ==
    IF ~canRedo(S) THEN Result(S, Bool(FALSE))
    ELSE LET action == S.redoStack[Len(S.redoStack)]
         IN  Applying(popRedo(S), action.field, action.newValue)

\* the header left as edited
reset_KeepsHeader(S) ==
    IF ~S.currentCity.loaded THEN Result(S, Undefined)
    ELSE Result([S EXCEPT !.currentCity.binaryData = S.currentCity.originalBinary,
                          !.binaryFields = findAllFields(S.currentCity.originalBinary),
                          !.hasChanges = FALSE],
                Undefined)

reset(S) ==
    IF ~S.currentCity.loaded THEN Result(S, Undefined)
    ELSE Result([S EXCEPT !.currentCity.header = S.currentCity.originalHeader,
                          !.currentCity.binaryData = S.currentCity.originalBinary,
                          !.binaryFields = findAllFields(S.currentCity.originalBinary),
                          !.hasChanges = FALSE],
                Undefined)

\* CityManager.getDisplayData: the values of editable that validate reads
getDisplayData(S) ==
    LET binary == S.currentCity.binaryData
        fields == S.binaryFields
    IN  [binaryEstate |-> readEstate(binary, fields.ESTATE),
         binaryRank |-> readRank(binary, fields.RANK),
         binaryDsaSupplies |-> readDsaSupplies(binary, fields.DSA_SUPPLIES)]

\* CityManager.validate; threw is TRUE when getDisplayData throws
validate(S) ==
    IF ~S.currentCity.loaded
    THEN [valid |-> FALSE, errors |-> <<"No city loaded">>, warnings |-> <<>>,
          threw |-> FALSE]
    ELSE IF getDisplayData(S).binaryEstate = RangeError
    THEN [valid |-> FALSE, errors |-> <<>>, warnings |-> <<>>, threw |-> TRUE]
    ELSE Validator_validate(S.currentCity, S.binaryFields, getDisplayData(S))

\* CityManager.save at the instant now
save(S, now) ==
    IF ~S.currentCity.loaded THEN Result(S, Null)
    ELSE LET serialized == serialize(S.currentCity, now)
         IN  Result([S EXCEPT !.currentCity = serialized.city,
                              !.hasChanges = FALSE],
                    Blob(serialized.fileData))

\* Actions.handleSave: confirmed is the answer to the dialog that lists the
\* warnings; the value returned here is the file handed to the download
handleSave(S, confirmed, now) ==
    LET validation == validate(S)
    IN  IF validation.threw THEN Result(S, RangeError)
        ELSE IF ~validation.valid THEN Result(S, Undefined)
        ELSE IF Len(validation.warnings) > 0 /\ ~confirmed THEN Result(S, Undefined)
        ELSE LET saved == save(S, now)
             IN  IF saved.ret = Null THEN Result(saved.state, Undefined) ELSE saved

clear(S) ==
    Result([S EXCEPT !.currentCity = NoCity,
                     !.binaryFields = NoFields,
                     !.hasChanges = FALSE,
                     !.fileName = Null],
           Undefined)

-----------------------------------------------------------------------------
(* Session level: the events of the editor on CityManager *)

\* the files offered to load: the name and the bytes of the file
FileA == [name |-> Str(<<97, 46, 99, 105, 116, 121>>),
          bytes |-> fileData(Header(Num(1000), Num(3), Str(Foo), Str(EASY), Bool(FALSE)),
                            SaveA)]
FileB == [name |-> Str(<<98, 46, 99, 105, 116, 121>>),
          bytes |-> fileData(Header(Num(5000), Num(7), Str(Alfa), Str(HARD), Bool(TRUE)),
                            SaveB)]
FileC == [name |-> Str(<<99, 46, 99, 105, 116, 121>>),
          bytes |-> fileData(Header(Num(1000), Num(0), Str(Alfa), Str(NORMAL), Bool(FALSE)),
                            SaveC)]
FileD == [name |-> Str(<<100, 46, 99, 105, 116, 121>>),
          bytes |-> fileData(Header(Num(25000), Num(0), Str(Foo), Str(NORMAL), Bool(TRUE)),
                            SaveD)]

\* a city whose gamemode is not in the enumeration, and the city in debt
FileE == [name |-> Str(<<101, 46, 99, 105, 116, 121>>),
          bytes |-> fileData(Header(Num(1000), Num(3), Str(Foo), Str(EXPERT), Bool(FALSE)),
                            SaveE)]
FileF == [name |-> Str(<<102, 46, 99, 105, 116, 121>>),
          bytes |-> fileData(Header(Num(-500), Num(0), Str(Alfa), Str(NORMAL), Undefined),
                            SaveF)]

Files == {FileA, FileB, FileC, FileD, FileE, FileF}

\* texts typed as a city name: the names above, a padded one and a blank one
Padded == <<32, 66, 111, 32>>
Blank == <<32, 32>>
NameInputs == NameTexts \cup {Padded, Blank}

\* the session state as one record
Session ==
    [currentCity |-> currentCity, binaryFields |-> binaryFields,
     hasChanges |-> hasChanges, undoStack |-> undoStack,
     redoStack |-> redoStack, isApplyingHistory |-> isApplyingHistory,
     fileName |-> fileName, memoryBackup |-> memoryBackup]

InitCity ==
    /\ data = <<>>
    /\ last = NoCall
    /\ ops = 0
    /\ SessionIdle

\* one event: the method runs to completion
Event(op, arg, result) ==
    /\ currentCity' = result.state.currentCity
    /\ binaryFields' = result.state.binaryFields
    /\ hasChanges' = result.state.hasChanges
    /\ undoStack' = result.state.undoStack
    /\ redoStack' = result.state.redoStack
    /\ isApplyingHistory' = result.state.isApplyingHistory
    /\ fileName' = result.state.fileName
    /\ memoryBackup' = result.state.memoryBackup
    /\ call' = [op |-> op, arg |-> arg, ret |-> result.ret]
    /\ UNCHANGED <<data, last, moves, loads>>

\* an edit of the loaded city, counted against the bound
Edit(op, arg, result) ==
    /\ currentCity.loaded
    /\ ops < MaxOps
    /\ ops' = ops + 1
    /\ Event(op, arg, result)

Load ==
    \E file \in Files :
        /\ ~currentCity.loaded
        /\ Event("load", file.name, load(Session, file))
        /\ UNCHANGED ops

SetMoney == \E x \in MoneyNumbers : Edit("setMoney", x, setMoney(Session, x))

SetRank == \E v \in RankValues : Edit("setRank", Num(v), setRank(Session, Num(v)))

SetGamemode ==
    \E t \in GamemodeTexts : Edit("setGamemode", Str(t), setGamemode(Session, Str(t)))

SetName == \E t \in NameInputs : Edit("setName", Str(t), setName(Session, Str(t)))

ToggleUber == Edit("toggleUber", Undefined, toggleUber(Session))

SetDsaSupplies ==
    \E v \in SuppliesValues :
        Edit("setDsaSupplies", Num(v), setDsaSupplies(Session, Num(v)))

Undo == Edit("undo", Undefined, undo(Session))

Redo == Edit("redo", Undefined, redo(Session))

Reset == Edit("reset", Undefined, reset(Session))

Clear == Edit("clear", Undefined, clear(Session))

\* Date.now() at a save: two instants of November 2025, in milliseconds
Instants == {Float64Raw(DoubleOfBig(0, <<1, 762192, 0>>)),
             Float64Raw(DoubleOfBig(0, <<1, 762192, 1>>))}

Save == \E now \in Instants : Edit("save", now, save(Session, now))

HandleSave ==
    \E confirmed \in BOOLEAN : \E now \in Instants :
        Edit("handleSave", Bool(confirmed), handleSave(Session, confirmed, now))

NextCity ==
    \/ Load
    \/ SetMoney
    \/ SetRank
    \/ SetGamemode
    \/ SetName
    \/ ToggleUber
    \/ SetDsaSupplies
    \/ Undo
    \/ Redo
    \/ Reset
    \/ Clear
    \/ Save
    \/ HandleSave

SpecCity == InitCity /\ [][NextCity]_vars

-----------------------------------------------------------------------------
(* History level: the calls of HistoryManager on their own.  The k-th      *)
(* recorded action takes the field from k - 1 to k, so that an entry tells *)
(* when it was recorded.                                                   *)

\* calls of record in one behaviour
MaxRecords == 52

\* calls of popUndo, popRedo, clear, startApplying and stopApplying, and
\* records of an unchanged value
MaxMoves == 2

HistoryCall(op, arg, S) ==
    /\ undoStack' = S.undoStack
    /\ redoStack' = S.redoStack
    /\ isApplyingHistory' = S.isApplyingHistory
    /\ call' = [op |-> op, arg |-> arg, ret |-> Undefined]
    /\ UNCHANGED <<data, last, currentCity, binaryFields, hasChanges,
                   fileName, memoryBackup, loads>>

HistoryMove(op, S) ==
    /\ moves < MaxMoves
    /\ moves' = moves + 1
    /\ UNCHANGED ops
    /\ HistoryCall(op, Undefined, S)

\* a change of the field
Record ==
    /\ ops < MaxRecords
    /\ ops' = ops + 1
    /\ UNCHANGED moves
    /\ HistoryCall("record", Num(ops + 1),
                   record(Session, Action("setDsaSupplies", "dsaSupplies",
                                          Num(ops), Num(ops + 1))))

\* an edit that stores the value the field already has
RecordSame ==
    HistoryMove("record", record(Session, Action("setDsaSupplies", "dsaSupplies",
                                                 Num(ops), Num(ops))))

PopUndo == HistoryMove("popUndo", popUndo(Session))

PopRedo == HistoryMove("popRedo", popRedo(Session))

ClearHistory == HistoryMove("clear", clearHistory(Session))

StartApplying == HistoryMove("startApplying", startApplying(Session))

StopApplying == HistoryMove("stopApplying", stopApplying(Session))

NextHistory ==
    \/ Record
    \/ RecordSame
    \/ PopUndo
    \/ PopRedo
    \/ ClearHistory
    \/ StartApplying
    \/ StopApplying

SpecHistory == InitCity /\ [][NextHistory]_vars

-----------------------------------------------------------------------------
(* Properties of the codec, stated on the record of the last call *)

FixedOps == {"writeEstate", "writeRank", "writeDsaSupplies", "writeUber"}
StringOps == {"writeName", "writeGamemode"}

\* the wire name an operation edits
WireName(op) ==
    CASE op = "writeEstate" -> estate
      [] op = "writeRank" -> rank_lvl
      [] op = "writeDsaSupplies" -> dsarocketprocentage
      [] op = "writeUber" -> uber
      [] op = "writeGamemode" -> gamemode
      [] op = "writeName" -> name

\* the type tags the specification lets an operation write
SupportedTags(op) ==
    CASE op = "writeEstate" -> {TYPE_DOUBLE, TYPE_INT32}
      [] op = "writeRank" -> {TYPE_INT16, TYPE_INT8}
      [] op = "writeDsaSupplies" -> {TYPE_INT16}
      [] op = "writeUber" -> {TYPE_BOOL_TRUE, TYPE_BOOL_FALSE}
      [] op = "writeGamemode" -> {TYPE_STRING}
      [] op = "writeName" -> {TYPE_STRING}

\* the matching read of an operation, on a fresh scan of buffer d
ReadBack(op, d) ==
    LET f == findField(d, WireName(op))
    IN  CASE op = "writeEstate" -> readEstate(d, f)
          [] op = "writeRank" -> readRank(d, f)
          [] op = "writeDsaSupplies" -> readDsaSupplies(d, f)
          [] op = "writeUber" -> readUber(d, f)
          [] op = "writeGamemode" -> readGamemode(d, f)
          [] op = "writeName" -> readName(d, f)

\* v is in the valid range of a field of the given type
InRange(op, type, x) ==
    CASE op = "writeEstate" ->
            \/ type = TYPE_INT32 /\ x.t = "number" /\ x.n >= 0 /\ x.n <= 2147483647
            \/ type = TYPE_DOUBLE /\ IsFinite(x)
      [] op = "writeRank" -> type \in {TYPE_INT16, TYPE_INT8} /\ x.n >= 0 /\ x.n <= 64
      [] op = "writeDsaSupplies" -> type = TYPE_INT16 /\ x.n >= 0 /\ x.n <= 32767
      [] OTHER -> FALSE

\* C1: after writeEstate / writeRank / writeDsaSupplies has written an
\* in-range value v to a field of a supported type, scanning the buffer again
\* for the field and decoding it with the matching read returns exactly v.
C1_FixedRoundTrip ==
    (/\ last.op \in {"writeEstate", "writeRank", "writeDsaSupplies"}
     /\ last.field.found
     /\ InRange(last.op, last.field.type, last.arg))
    => ReadBack(last.op, data) = last.arg

\* an Int32 estate field has been overwritten with the largest Int32 and
\* reads back as that value
C1_Witness ==
    /\ last.op = "writeEstate"
    /\ last.field.type = TYPE_INT32
    /\ last.arg = Num(2147483647)
    /\ Slice(last.pre, last.field.valueOffset, last.field.valueOffset + 4)
         # Slice(data, last.field.valueOffset, last.field.valueOffset + 4)
    /\ readEstate(data, findField(data, estate)) = Num(2147483647)

\* the call was a string write that the operation accepted
StringWritten == last.op \in StringOps /\ last.res.ret \in {"same", "new"}

\* C2: after writeName / writeGamemode has accepted a text t, scanning the
\* returned buffer for the field and decoding it returns exactly t, and the
\* 2-byte length prefix at valueOffset is the number of UTF-8 bytes of t,
\* which follow it.
C2_StringRoundTrip ==
    StringWritten =>
        LET f == findField(data, WireName(last.op))
            bytes == TextEncode(last.arg.s)
        IN  /\ ReadBack(last.op, data) = last.arg
            /\ ReadU16(data, f.valueOffset) = Len(bytes)
            /\ Slice(data, f.valueOffset + 2, f.valueOffset + 2 + Len(bytes)) = bytes

\* a descriptor with its three offsets moved by delta
Shifted(f, delta) ==
    [f EXCEPT !.nameOffset = @ + delta, !.typeOffset = @ + delta,
              !.valueOffset = @ + delta]

\* C3: when writeName / writeGamemode changes the stored length by D, every
\* table field found after the edited field's valueOffset is found, on a new
\* scan of the returned buffer, with its offsets D greater and the same type,
\* and every field found before the edit point is found unchanged.
C3_OffsetShiftLaw ==
    (last.op \in StringOps /\ last.res.ret = "new") =>
        LET edit == last.field.valueOffset
            D == ReadU16(data, edit) - ReadU16(last.pre, edit)
        IN  \A key \in Keys :
                LET before == findField(last.pre, FIELD_NAMES[key])
                    after == findField(data, FIELD_NAMES[key])
                IN  before.found =>
                        IF before.nameOffset > edit
                        THEN after = Shifted(before, D)
                        ELSE after = before

\* the call was a string write of a text the operation accepts, to a field
\* tagged as a string
StringWriteCase ==
    /\ last.op \in StringOps
    /\ last.field.found
    /\ last.field.type = TYPE_STRING
    /\ Len(last.arg.s) <= 255
    /\ last.op = "writeGamemode" => last.arg.s \in GAMEMODES

\* C4: when the encoded length of the new text differs from the stored
\* length, the write returns a new buffer made of the original bytes before
\* valueOffset, the new length in 2 bytes big-endian, all encoded bytes of the
\* new text, and the original bytes after the old string; the buffer it was
\* given is not modified.
C4_RebuildLaw ==
    LET vo == last.field.valueOffset
        oldLen == ReadU16(last.pre, vo)
        newBytes == TextEncode(last.arg.s)
    IN  (StringWriteCase /\ Len(newBytes) # oldLen) =>
            /\ last.res.ret = "new"
            /\ Len(data) = Len(last.pre) + (Len(newBytes) - oldLen)
            /\ data = Slice(last.pre, 0, vo) \o Int16Bytes(Len(newBytes))
                      \o newBytes \o SliceFrom(last.pre, vo + 2 + oldLen)
            /\ last.res.input = last.pre

\* C5: when the encoded length of the new text equals the stored length, the
\* write returns the very buffer it was given, with the length prefix
\* unchanged, the value bytes equal to the whole encoding of the new text and
\* every other byte unchanged.
C5_SameLengthInPlace ==
    LET vo == last.field.valueOffset
        oldLen == ReadU16(last.pre, vo)
        newBytes == TextEncode(last.arg.s)
    IN  (StringWriteCase /\ Len(newBytes) = oldLen) =>
            /\ last.res.ret = "same"
            /\ data = Slice(last.pre, 0, vo + 2) \o newBytes
                      \o SliceFrom(last.pre, vo + 2 + oldLen)

\* the locator of the specification: the first offset i in
\* 0 .. len(buffer) - len(name) - 2 that holds the length byte and the name
ReferenceFind(d, fieldName) ==
    LET pattern == TextEncode(fieldName)
        hits == {i \in 0..(Len(d) - Len(pattern) - 2) :
                    /\ d[i + 1] = Len(pattern)
                    /\ \A j \in 1..Len(pattern) : d[i + 1 + j] = pattern[j]}
        first == CHOOSE i \in hits : \A k \in hits : i <= k
        typeOffset == first + 1 + Len(pattern)
    IN  IF hits = {} THEN NoField
        ELSE [found |-> TRUE, nameOffset |-> first, typeOffset |-> typeOffset,
              valueOffset |-> IF d[typeOffset + 1] \in {TYPE_BOOL_TRUE, TYPE_BOOL_FALSE}
                              THEN typeOffset ELSE typeOffset + 1,
              type |-> d[typeOffset + 1], fieldName |-> fieldName]

\* C6: findField returns what the reference locator returns, for every wire
\* name of the table, a field whose type tag is the last byte of the buffer
\* included.
C6_FindFieldIsReference ==
    \A key \in Keys :
        findField(data, FIELD_NAMES[key]) = ReferenceFind(data, FIELD_NAMES[key])

\* the offsets a fixed-width write may change, by the type of the field
ValueWindow(f) ==
    CASE f.type = TYPE_DOUBLE -> f.valueOffset..(f.valueOffset + 7)
      [] f.type = TYPE_INT32 -> f.valueOffset..(f.valueOffset + 3)
      [] f.type = TYPE_INT16 -> f.valueOffset..(f.valueOffset + 1)
      [] f.type = TYPE_INT8 -> {f.valueOffset}
      [] f.type \in {TYPE_BOOL_TRUE, TYPE_BOOL_FALSE} -> {f.typeOffset}
      [] OTHER -> {}

\* C7: a fixed-width write keeps the buffer length, changes no byte outside
\* the value window of the field it edits, and so leaves the descriptor of
\* every other table field as it was.
C7_FixedWriteFrame ==
    (last.op \in FixedOps /\ last.field.found) =>
        /\ Len(data) = Len(last.pre)
        /\ \A i \in 0..(Len(last.pre) - 1) :
               i \notin ValueWindow(last.field) => At(data, i) = At(last.pre, i)
        /\ \A key \in Keys :
               FIELD_NAMES[key] # WireName(last.op) =>
                   findField(data, FIELD_NAMES[key])
                       = findField(last.pre, FIELD_NAMES[key])

\* what a successful call of the operation returns
SuccessOutcomes(op) ==
    IF op \in StringOps THEN {"same", "new"} ELSE {"undefined"}

\* C8: a write given a descriptor whose type the operation does not support
\* leaves the buffer as it was and returns something that a successful write
\* never returns.
C8_TypeMismatchSignalled ==
    (/\ last.op \in FixedOps \cup StringOps
     /\ last.field.found
     /\ last.field.type \notin SupportedTags(last.op))
    => /\ data = last.pre
       /\ last.res.input = last.pre
       /\ last.res.ret \notin SuccessOutcomes(last.op)

-----------------------------------------------------------------------------
(* Properties of the edit session *)

\* C9: in every state of a session on a loaded city, binaryFields is what a
\* scan of the current binaryData for all table fields returns.
C9_DescriptorsFresh ==
    currentCity.loaded => binaryFields = findAllFields(currentCity.binaryData)

\* the header mirrors of a city equal the values decoded from its buffer,
\* for every mirrored field found in the buffer
Agree(header, d) ==
    LET f == findAllFields(d)
    IN  /\ f.ESTATE.found => header.money = readEstate(d, f.ESTATE)
        /\ f.RANK.found => header.rank_lvl = readRank(d, f.RANK)
        /\ f.NAME.found => header.name = readName(d, f.NAME)
        /\ f.GAMEMODE.found => header.gamemode = readGamemode(d, f.GAMEMODE)
        /\ f.UBER.found => header.uber = readUber(d, f.UBER)

\* C10: a city loaded with header and binary in agreement keeps them in
\* agreement through every sequence of edits, whatever the arguments.
C10_HeaderMirrorsBinary ==
    (currentCity.loaded
     /\ Agree(currentCity.originalHeader, currentCity.originalBinary))
    => Agree(currentCity.header, currentCity.binaryData)

-----------------------------------------------------------------------------
(* Properties of the codec: booleans and clamping *)

\* C11: after writeUber(buffer, field, v) on a found uber field, a new scan
\* of the buffer followed by readUber returns v, the buffer has the length it
\* had, and no byte other than the one at typeOffset has changed.
C11_BooleanToggle ==
    (last.op = "writeUber" /\ last.field.found) =>
        /\ ReadBack("writeUber", data) = last.arg
        /\ Len(data) = Len(last.pre)
        /\ \A i \in 0..(Len(data) - 1) :
               i # last.field.typeOffset => At(data, i) = At(last.pre, i)

\* the negation of the value the uber field held has been written and is
\* read back
C11_Witness ==
    /\ last.op = "writeUber"
    /\ last.field.found
    /\ readUber(last.pre, last.field) = Bool(last.arg.n = 0)
    /\ readUber(data, findField(data, uber)) = last.arg
    /\ data # last.pre

\* min(max(v, 0), cap)
Capped(v, cap) == IF v < 0 THEN 0 ELSE IF v > cap THEN cap ELSE v

\* C12: for every integer v, writeRank on a rank field tagged 0x0e or 0x0f
\* stores min(max(v, 0), 64) and writeDsaSupplies on a field tagged 0x0e
\* stores min(max(v, 0), 32767): the value read back is the capped one, so
\* it lies within 0..cap.
C12_SmallIntegerClamp ==
    /\ (last.op = "writeRank" /\ last.field.found
          /\ last.field.type \in {TYPE_INT16, TYPE_INT8})
        => ReadBack("writeRank", data) = Num(Capped(last.arg.n, 64))
    /\ (last.op = "writeDsaSupplies" /\ last.field.found
          /\ last.field.type = TYPE_INT16)
        => ReadBack("writeDsaSupplies", data) = Num(Capped(last.arg.n, 32767))

\* 32768 written to a rank field tagged 0x0e is stored as 64
C12_Witness ==
    /\ last.op = "writeRank"
    /\ last.field.type = TYPE_INT16
    /\ last.arg = Num(32768)
    /\ readRank(data, findField(data, rank_lvl)) = Num(64)

\* the call was writeEstate on a found estate field of the given type
EstateWrite(type) ==
    last.op = "writeEstate" /\ last.field.found /\ last.field.type = type

\* min(max(v, 0), 2147483647) for an integer argument of the model
CappedInt32(x) ==
    IF x.t = "number" THEN Capped(x.n, 2147483647) ELSE 2147483647

\* C13: for every integer v, writeEstate on an estate field tagged 0x08
\* stores min(max(v, 0), 2147483647) as 4 big-endian bytes, so readEstate
\* returns that value, which is neither negative nor above 2147483647.
C13_Int32MoneyClamp ==
    (EstateWrite(TYPE_INT32) /\ (last.arg.t = "number" \/ last.arg = ThreeBillion)) =>
        LET vo == last.field.valueOffset
            v == CappedInt32(last.arg)
        IN  /\ Slice(data, vo, vo + 4)
                 = <<v \div 16777216, (v \div 65536) % 256, (v \div 256) % 256, v % 256>>
            /\ ReadBack("writeEstate", data) = Num(v)
            /\ v >= 0 /\ v <= 2147483647

\* -5 written to an Int32 estate field that held another value is read
\* back as 0
C13_Witness ==
    /\ EstateWrite(TYPE_INT32)
    /\ last.arg = Num(-5)
    /\ readEstate(last.pre, last.field) # Num(0)
    /\ readEstate(data, findField(data, estate)) = Num(0)

\* C14: a write of 3000000000 to an estate field tagged 0x08 is rejected
\* before any byte is written, with an outcome no successful write has; the
\* same write to a field tagged 0x07 succeeds and reads back as 3000000000.
C14_OutOfRangeRejected ==
    /\ (EstateWrite(TYPE_INT32) /\ last.arg = ThreeBillion) =>
           /\ data = last.pre
           /\ last.res.ret \notin SuccessOutcomes("writeEstate")
    /\ (EstateWrite(TYPE_DOUBLE) /\ last.arg = ThreeBillion) =>
           ReadBack("writeEstate", data) = ThreeBillion

\* C15: writeEstate on an estate field tagged 0x07, given NaN, Infinity or
\* -Infinity, writes no byte and returns an outcome no successful write has;
\* so the estate field of a buffer never decodes to a non-finite value.
C15_NonFiniteRejected ==
    /\ (EstateWrite(TYPE_DOUBLE) /\ ~IsFinite(last.arg)) =>
           /\ data = last.pre
           /\ last.res.ret \notin SuccessOutcomes("writeEstate")
    /\ LET f == findField(data, estate)
       IN  (f.found /\ f.type = TYPE_DOUBLE) => IsFinite(readEstate(data, f))

\* the legacy tag of a double
TYPE_DOUBLE_LEGACY == 16

\* the tags MONEY_TYPE_GUIDE documents for money
MoneyTags == {TYPE_DOUBLE, TYPE_INT32, TYPE_DOUBLE_LEGACY, TYPE_INT16}

\* C16: for an estate field tagged with any documented money tag (0x07,
\* 0x08, 0x10, 0x0e) readEstate returns a decoded value, never null, and
\* writeEstate stores the value clamped to the maximum of the tag: on a field
\* tagged 0x0e, min(max(v, 0), 32767) in 2 big-endian bytes.
C16_EveryMoneyTagDecoded ==
    /\ LET f == findField(data, estate)
       IN  (f.found /\ f.type \in MoneyTags) => readEstate(data, f) # Null
    /\ (EstateWrite(TYPE_INT16) /\ last.arg.t = "number") =>
           Slice(data, last.field.valueOffset, last.field.valueOffset + 2)
               = Int16Bytes(Capped(last.arg.n, 32767))

-----------------------------------------------------------------------------
(* Properties of the codec: failures *)

\* C17: writeName given a text whose UTF-8 encoding is longer than 255 bytes
\* returns an outcome no successful write has and leaves the buffer as it
\* was; and the text a successful writeName leaves in the buffer is the text
\* it was given.
C17_LongNameRejected ==
    (last.op = "writeName" /\ last.field.found /\ last.field.type = TYPE_STRING) =>
        /\ Len(TextEncode(last.arg.s)) > 255 =>
               /\ data = last.pre
               /\ last.res.ret \notin SuccessOutcomes("writeName")
        /\ (Len(last.arg.s) > 255 /\ last.res.ret \in SuccessOutcomes("writeName")) =>
               ReadBack("writeName", data) = last.arg

\* an outcome that no successful decode returns
ErrorOutcome(x) == x.t \notin {"number", "float64", "string", "boolean"}

\* the number of bytes a read of the field decodes, from valueOffset on
ReadWidth(d, f) ==
    CASE f.type = TYPE_DOUBLE -> 8
      [] f.type = TYPE_INT32 -> 4
      [] f.type = TYPE_INT16 -> 2
      [] f.type = TYPE_INT8 -> 1
      [] f.type = TYPE_STRING -> 2 + ReadU16(d, f.valueOffset)
      [] OTHER -> 0

\* the value bytes of the field run past the end of the buffer
RunsPastEnd(d, f) == f.found /\ f.valueOffset + ReadWidth(d, f) > Len(d)

\* C18: a read whose value window is not wholly inside the buffer returns an
\* error outcome, never 0 or another ordinary value: readInt32BE and
\* readInt16BE at an offset below 0 or too close to the end, and readEstate,
\* readRank, readDsaSupplies and readName on a buffer cut short inside the
\* value of the field.
C18_NoDefaultForFailure ==
    /\ \A o \in (-1)..Len(data) :
           /\ (o < 0 \/ o + 4 > Len(data)) => ErrorOutcome(readInt32BE(data, o))
           /\ (o < 0 \/ o + 2 > Len(data)) => ErrorOutcome(readInt16BE(data, o))
    /\ \A n \in 0..Len(data) :
           LET cut == SubSeq(data, 1, n)
               f == findAllFields(cut)
           IN  /\ (RunsPastEnd(cut, f.ESTATE) /\ f.ESTATE.type \in {TYPE_DOUBLE, TYPE_INT32})
                    => ErrorOutcome(readEstate(cut, f.ESTATE))
               /\ (RunsPastEnd(cut, f.RANK) /\ f.RANK.type \in {TYPE_INT16, TYPE_INT8})
                    => ErrorOutcome(readRank(cut, f.RANK))
               /\ (RunsPastEnd(cut, f.DSA_SUPPLIES) /\ f.DSA_SUPPLIES.type = TYPE_INT16)
                    => ErrorOutcome(readDsaSupplies(cut, f.DSA_SUPPLIES))
               /\ (RunsPastEnd(cut, f.NAME) /\ f.NAME.type = TYPE_STRING)
                    => ErrorOutcome(readName(cut, f.NAME))

-----------------------------------------------------------------------------
(* Properties of the edit session: absent fields and history *)

\* the key of the table field an edit of the session writes
EditedKey(op) ==
    CASE op = "setMoney" -> "ESTATE"
      [] op = "setRank" -> "RANK"
      [] op = "setName" -> "NAME"
      [] op = "setGamemode" -> "GAMEMODE"
      [] op = "toggleUber" -> "UBER"
      [] op = "setDsaSupplies" -> "DSA_SUPPLIES"

EditOps == {"setMoney", "setRank", "setName", "setGamemode", "toggleUber",
            "setDsaSupplies"}

C20_UndoCoversEveryEdit ==
    (/\ currentCity.loaded
     /\ ops = 1
     /\ call.op \in EditOps
     /\ \/ currentCity.binaryData # currentCity.originalBinary
        \/ currentCity.header # currentCity.originalHeader)
    => /\ canUndo(Session)
       /\ LET undone == undo(Session).state
           IN  /\ undone.currentCity.binaryData = currentCity.originalBinary
               /\ undone.currentCity.header = currentCity.originalHeader
               /\ redo(undone).state.currentCity.binaryData = currentCity.binaryData
               /\ redo(undone).state.currentCity.header = currentCity.header

-----------------------------------------------------------------------------
(* Properties of the codec: repeated and guarded writes *)

\* the buffer a fixed-width write of x with descriptor f leaves
FixedWrite(op, d, f, x) ==
    CASE op = "writeEstate" -> writeEstate(d, f, x).output
      [] op = "writeRank" -> writeRank(d, f, x.n).output
      [] op = "writeDsaSupplies" -> writeDsaSupplies(d, f, x.n).output
      [] op = "writeUber" -> writeUber(d, f, x.n = 1).output

\* the arguments the model gives a fixed-width write
FixedArgs(op) ==
    CASE op = "writeEstate" -> MoneyNumbers
      [] op = "writeRank" -> {Num(v) : v \in RankValues}
      [] op = "writeDsaSupplies" -> {Num(v) : v \in SuppliesValues}
      [] op = "writeUber" -> {Bool(TRUE), Bool(FALSE)}

\* C24: for every fixed-width write and every in-range value v, writing v
\* a second time with the same descriptor leaves the buffer byte for byte as
\* the first write left it.
C24_FixedWriteIdempotent ==
    \A op \in FixedOps : \A x \in FixedArgs(op) :
        LET f == findField(data, WireName(op))
            once == FixedWrite(op, data, f, x)
        IN  (f.found /\ (op = "writeUber" \/ InRange(op, f.type, x)))
                => FixedWrite(op, once, f, x) = once

\* the rank 64 has been written twice in a row with the same descriptor and
\* the second write changed nothing
C24_Witness ==
    /\ ops = 2
    /\ last.op = "writeRank"
    /\ last.arg = Num(64)
    /\ last.field.type \in {TYPE_INT16, TYPE_INT8}
    /\ last.field = findField(data, rank_lvl)
    /\ readRank(last.pre, last.field) = Num(64)
    /\ data = last.pre

\* C30: in every call of writeUber with a descriptor, the byte at typeOffset
\* holds 0x11 or 0x12 before the write, so a byte that is not a boolean tag
\* is never overwritten with one.
C30_UberWriteOnlyOnBooleanTag ==
    (last.op = "writeUber" /\ last.field.found) =>
        At(last.pre, last.field.typeOffset) \in {TYPE_BOOL_TRUE, TYPE_BOOL_FALSE}

-----------------------------------------------------------------------------
(* Properties of the edit session: failed edits, history and reset *)

\* C25: a call of setGamemode or setName that returns false leaves the
\* header, the buffer, binaryFields and hasChanges as they were before it.
C25_FailedStringEditAtomic ==
    [][(/\ currentCity.loaded
        /\ ops' = ops + 1
        /\ call'.op \in {"setGamemode", "setName"}
        /\ call'.ret = Bool(FALSE))
       => UNCHANGED <<currentCity, binaryFields, hasChanges>>]_vars

\* C26: when canUndo is true, undo() moves the top entry of the undo stack
\* to the redo stack and records nothing, and undo() followed at once by
\* redo() leaves header, buffer and both stacks as they were before the undo.
C26_UndoRedoInverse ==
    (currentCity.loaded /\ canUndo(Session)) =>
        LET undone == undo(Session).state
            redone == redo(undone).state
        IN  /\ undone.undoStack = SubSeq(undoStack, 1, Len(undoStack) - 1)
            /\ undone.redoStack = Append(redoStack, undoStack[Len(undoStack)])
            /\ redone.undoStack = undoStack
            /\ redone.redoStack = redoStack
            /\ redone.currentCity.header = currentCity.header
            /\ redone.currentCity.binaryData = currentCity.binaryData

\* C28: reset() makes header and buffer those parsed at load, recomputes
\* binaryFields and clears hasChanges; the stored originals never change
\* while the city stays loaded, so a second reset changes nothing.
C28_ResetRestoresLoaded ==
    /\ [](call.op = "reset" =>
             /\ currentCity.header = currentCity.originalHeader
             /\ currentCity.binaryData = currentCity.originalBinary
             /\ binaryFields = findAllFields(currentCity.originalBinary)
             /\ hasChanges = FALSE
             /\ reset(Session).state = Session)
    /\ [][(currentCity.loaded /\ currentCity'.loaded) =>
             /\ currentCity'.originalHeader = currentCity.originalHeader
             /\ currentCity'.originalBinary = currentCity.originalBinary]_vars

\* an edited city has been reset: header and buffer are the loaded ones
C28_Witness ==
    /\ ops = 2
    /\ call.op = "reset"
    /\ undoStack # <<>>
    /\ currentCity.binaryData = currentCity.originalBinary
    /\ currentCity.header = currentCity.originalHeader

-----------------------------------------------------------------------------
(* Load level: CityManager.load as the steps between its awaits.  loads is *)
(* the log of the calls in the order they started: the file, the await the *)
(* call is suspended at ("arrayBuffer", "parse", "store"), "done" once it  *)
(* has resolved or "failed" once it has rejected, and the city parse       *)
(* returned.  The promise of FileParser.parse is settled when it is        *)
(* awaited, so only another continuation can run before the call goes on;  *)
(* the file read and the backup store wait for the browser, and any event  *)
(* can be dispatched meanwhile.                                            *)

\* calls of load in one behaviour
MaxLoads == 2

Pending == {i \in DOMAIN loads : loads[i].pc \in {"arrayBuffer", "parse", "store"}}

\* a continuation is queued: no event is dispatched before it has run
ContinuationQueued == \E i \in DOMAIN loads : loads[i].pc = "parse"

\* Display.showEditor has run: a load has resolved
EditorVisible == \E i \in DOMAIN loads : loads[i].pc = "done"

\* Actions.loadFile: load runs up to file.arrayBuffer()
StartLoad ==
    \E file \in Files :
        /\ Len(loads) < MaxLoads
        /\ ~ContinuationQueued
        /\ loads' = Append(loads, [file |-> file, pc |-> "arrayBuffer", city |-> NoCity])
        /\ UNCHANGED <<data, last, ops, currentCity, binaryFields, hasChanges,
                       undoStack, redoStack, isApplyingHistory, call, fileName,
                       memoryBackup, moves>>

\* the file is read: FileParser.parse runs and its promise is awaited
ReadDone ==
    \E i \in DOMAIN loads :
        /\ loads[i].pc = "arrayBuffer"
        /\ ~ContinuationQueued
        /\ loads' = [loads EXCEPT ![i].pc = "parse",
                                  ![i].city = parse(loads[i].file.bytes)]
        /\ UNCHANGED <<data, last, ops, currentCity, binaryFields, hasChanges,
                       undoStack, redoStack, isApplyingHistory, call, fileName,
                       memoryBackup, moves>>

\* the city is installed and BackupManager.store runs up to its first await
ParseDone ==
    \E i \in DOMAIN loads :
        /\ loads[i].pc = "parse"
        /\ IF ~loads[i].city.loaded
           THEN /\ loads' = [loads EXCEPT ![i].pc = "failed"]
                /\ call' = [op |-> "load", arg |-> loads[i].file.name, ret |-> Rejected]
                /\ UNCHANGED <<currentCity, fileName, hasChanges, binaryFields,
                               memoryBackup>>
           ELSE /\ loads' = [loads EXCEPT ![i].pc = "store"]
                /\ currentCity' = loads[i].city
                /\ fileName' = loads[i].file.name
                /\ hasChanges' = FALSE
                /\ binaryFields' = findAllFields(loads[i].city.binaryData)
                /\ memoryBackup' = store(loads[i].file.name,
                                         loads[i].city.originalBinary,
                                         loads[i].city.originalHeader)
                /\ UNCHANGED call
        /\ UNCHANGED <<data, last, ops, undoStack, redoStack, isApplyingHistory,
                       moves>>

\* the backup is stored: the history is cleared and the call resolves
StoreDone ==
    \E i \in DOMAIN loads :
        /\ loads[i].pc = "store"
        /\ ~ContinuationQueued
        /\ loads' = [loads EXCEPT ![i].pc = "done"]
        /\ undoStack' = <<>>
        /\ redoStack' = <<>>
        /\ call' = [op |-> "load", arg |-> loads[i].file.name, ret |-> Undefined]
        /\ UNCHANGED <<data, last, ops, currentCity, binaryFields, hasChanges,
                       isApplyingHistory, fileName, memoryBackup, moves>>

\* an event of the editor dispatched between the steps of the loads
Dispatched(A) == EditorVisible /\ ~ContinuationQueued /\ A

NextLoad ==
    \/ StartLoad
    \/ ReadDone
    \/ ParseDone
    \/ StoreDone
    \/ Dispatched(SetDsaSupplies)
    \/ Dispatched(Undo)

SpecLoad == InitCity /\ [][NextLoad]_vars

-----------------------------------------------------------------------------
(* Properties of the history stacks *)

\* C27: after any sequence of record, popUndo, popRedo and clear calls the
\* undo stack holds at most maxHistory entries and the two stacks together
\* hold at most maxHistory; a record of a real change made while history is
\* not being applied empties the redo stack and appends the entry, dropping
\* the oldest entry when the stack was full.
C27_HistoryBounded ==
    /\ [](/\ Len(undoStack) <= maxHistory
          /\ Len(undoStack) + Len(redoStack) <= maxHistory)
    /\ [][(call'.op = "record" /\ moves' = moves + 1)
          => UNCHANGED <<undoStack, redoStack>>]_vars
    /\ [][(call'.op = "record" /\ moves' = moves /\ ~isApplyingHistory)
          => LET action == Action("setDsaSupplies", "dsaSupplies",
                                  Num(ops), call'.arg)
             IN  /\ redoStack' = <<>>
                 /\ undoStack' = IF Len(undoStack) = maxHistory
                                 THEN Append(Tail(undoStack), action)
                                 ELSE Append(undoStack, action)]_vars

\* the stack is full and its oldest entry is gone
C27_Witness ==
    /\ call.op = "record"
    /\ Len(undoStack) = maxHistory
    /\ undoStack[1].oldValue # Num(0)
    /\ undoStack[maxHistory].newValue = Num(ops)

-----------------------------------------------------------------------------
(* Properties of the backup *)

\* C21: while a city is loaded, after any edits, saves and resets, the
\* content of getOriginalBlob() is byte for byte the file that was passed
\* to load: header-length prefix, JSON header and compressed payload.
C21_OriginalFilePreserved ==
    currentCity.loaded =>
        \E file \in Files :
            /\ file.name = fileName
            /\ getOriginalBlob(Session) = Blob(file.bytes)

-----------------------------------------------------------------------------
(* Properties of validation and saving *)

\* the stored number of a field is outside the range of the editor: below 0
\* or above max.  An Int16 estate is outside 0..32767 when its sign bit is
\* set, an Int8 estate outside 0..127 likewise.
RankOutOfRange(S) ==
    LET x == readRank(S.currentCity.binaryData, S.binaryFields.RANK)
    IN  x.t = "number" /\ (x.n < 0 \/ x.n > MAX_RANK)

SuppliesOutOfRange(S) ==
    LET x == readDsaSupplies(S.currentCity.binaryData, S.binaryFields.DSA_SUPPLIES)
    IN  x.t = "number" /\ (x.n < 0 \/ x.n > 32767)

EstateOutOfRange(S) ==
    LET f == S.binaryFields.ESTATE
        d == S.currentCity.binaryData
    IN  /\ f.found
        /\ \/ f.type \in {TYPE_INT16, TYPE_INT8} /\ At(d, f.valueOffset) >= 128
           \/ f.type = TYPE_INT32 /\ ReadI32(d, f.valueOffset) < 0
           \/ /\ f.type \in {TYPE_DOUBLE, TYPE_DOUBLE_LEGACY}
              /\ f.valueOffset + 8 <= Len(d)
              /\ LET x == getFloat64(Slice(d, f.valueOffset, f.valueOffset + 8))
                 IN  ~IsNaN(x) /\ (Less(x, Num(0)) \/ Less(MAX_VALUE, x))

\* the estate is a double within its range and above 1000000000000
EstateVeryHigh(S) ==
    LET x == readEstate(S.currentCity.binaryData, S.binaryFields.ESTATE)
    IN  /\ S.binaryFields.ESTATE.found /\ S.binaryFields.ESTATE.type = TYPE_DOUBLE
        /\ x.t = "float64" /\ IsFinite(x) /\ Less(OneTrillion, x)

\* C22: handleSave calls save and hands out a file only when validate
\* reports no error; valid is true exactly when the error list is empty; a
\* stored estate above the maximum of its binary type, a rank above 64,
\* supplies above 32767 or any of them below 0 is an error; and an estate in
\* range but above the warning threshold gives a warning and no error.
C22_ValidationGatesSaving ==
    /\ [](currentCity.loaded =>
            LET validation == validate(Session)
            IN  /\ validation.valid <=> validation.errors = <<>>
                /\ ~validation.threw =>
                     /\ (\/ EstateOutOfRange(Session)
                         \/ RankOutOfRange(Session)
                         \/ SuppliesOutOfRange(Session)) => validation.errors # <<>>
                     /\ EstateVeryHigh(Session) =>
                            /\ \E i \in DOMAIN validation.warnings :
                                   validation.warnings[i] = "Money (Estate): Very high value"
                            /\ \A i \in DOMAIN validation.errors :
                                   validation.errors[i] \notin
                                       {"Money (Estate): Invalid number value",
                                        "Money (Estate): below minimum",
                                        "Money (Estate): exceeds maximum"})
    /\ [][(call'.op = "handleSave" /\ ops' = ops + 1) =>
            /\ call'.ret.t = "Blob" => validate(Session).errors = <<>>
            /\ call'.ret.t # "Blob" =>
                   UNCHANGED <<currentCity, binaryFields, hasChanges>>]_vars

-----------------------------------------------------------------------------
(* Properties of loading *)

\* C29: when a call of load resolves and no other call is still suspended,
\* currentCity, fileName and binaryFields describe the file of the most
\* recently started load, hasChanges is false and both history stacks are
\* empty, whatever load, edit or undo was dispatched while it was suspended.
C29_LoadAtomic ==
    [][(\E i \in DOMAIN loads : loads[i].pc = "store" /\ loads'[i].pc = "done")
       => LET latest == loads'[Len(loads')].file
              city == parse(latest.bytes)
          IN  (\A i \in DOMAIN loads' : loads'[i].pc \in {"done", "failed"})
              => /\ fileName' = latest.name
                 /\ currentCity' = city
                 /\ binaryFields' = findAllFields(city.binaryData)
                 /\ hasChanges' = FALSE
                 /\ undoStack' = <<>>
                 /\ redoStack' = <<>>]_vars

=============================================================================
